---- MODULE Spec2Model ----
(***************************************************************************)
(* Place / visit tracking of zeke-core: PlaceService (place_service.py)    *)
(* and the Overland ingestion endpoint (overland.py).                      *)
(*                                                                         *)
(* Time is an integer number of seconds since a Monday 00:00:00 UTC.       *)
(* Positions are points on one meridian, given in metres from a reference  *)
(* point, so that the great-circle distance of two points is the absolute  *)
(* difference of their coordinates.                                        *)
(* Row ids (UUIDs in the program) are fresh positive integers.             *)
(***************************************************************************)
EXTENDS Integers, Sequences, FiniteSets, TLC

\* Python's None / SQL NULL for optional ids, timestamps and minutes.
None == -1
\* What a call gives when an exception leaves it instead of a value.
Raised == -2

\* ------------------------------------------------------------------ bounds
MaxVisits == 2
MaxFixes == 2
MaxRun == 5
MaxHistory == 2
FixesPerDay == 4
MaxSegment == 4
MaxCluster == 4
MaxFlagVisits == 3
MaxTop == 12

\* ------------------------------------------------------- program constants
DEFAULT_RADIUS == 100
ROUTINE_LOOKBACK_DAYS == 14
ROUTINE_HOUR_WINDOW == 2
ROUTINE_MIN_VISITS == 2

Minute == 60
Hour == 60 * Minute
Day == 24 * Hour
Week == 7 * Day

USER_ID == "default_user"
Users == {USER_ID, "guest"}

\* The owner the service is called for in Spec; the API layer knows no other.
Callers == {USER_ID}

\* The ids a place can get.
PlaceIds == {1, 2}

\* ------------------------------------------------------------- time helpers
weekday(t) == (t \div Day) % 7
hour(t) == (t % Day) \div Hour

Abs(x) == IF x < 0 THEN -x ELSE x

\* Variant: timedelta.seconds, which leaves the whole days out.
MinutesBetween_seconds(from, to) == ((to - from) % Day) \div Minute

\* int(total_seconds() / 60): Python's int() truncates toward zero.
MinutesBetween(from, to) ==
    IF to >= from THEN (to - from) \div Minute
    ELSE -((from - to) \div Minute)

\* --------------------------------------------------------------- geofences
_haversine_distance_meters(lat1, lat2) == Abs(lat1 - lat2)

\* Variant: the edge itself is outside.
is_at_place_strict(lat, place) ==
    _haversine_distance_meters(lat, place.latitude) < place.radius_meters

is_at_place(lat, place) ==
    _haversine_distance_meters(lat, place.latitude) <= place.radius_meters

\* ------------------------------------------------------------------- rows
NewPlace(uid, name, lat, radius, category) ==
    [uid |-> uid, name |-> name, latitude |-> lat, radius_meters |-> radius,
     category |-> category,
     visit_count |-> 0, total_dwell_time_minutes |-> 0,
     first_visited |-> None, last_visited |-> None]

NewVisit(uid, place_id, t, routine) ==
    [uid |-> uid, place_id |-> place_id, entered_at |-> t, exited_at |-> None,
     dwell_minutes |-> None, day_of_week |-> weekday(t), is_routine |-> routine]

Extend(f, k, v) == [x \in (DOMAIN f) \cup {k} |-> IF x = k THEN v ELSE f[x]]
Restrict(f, S) == [x \in S |-> f[x]]

\* The orders in which a query without ORDER BY can return the rows S.
RECURSIVE Orders(_)
Orders(S) ==
    IF S = {} THEN {<<>>}
    ELSE UNION {{<<x>> \o rest : rest \in Orders(S \ {x})} : x \in S}

\* The first position of the sequence that holds one of hits (0 if none).
FirstIndex(seq, hits) ==
    IF \E k \in DOMAIN seq : seq[k] \in hits
    THEN CHOOSE k \in DOMAIN seq :
             seq[k] \in hits /\ \A j \in DOMAIN seq : seq[j] \in hits => k <= j
    ELSE 0

\* The owner's visits with exited_at IS NULL (all places / one place).
OpenVisits(V, uid) == {v \in DOMAIN V : V[v].uid = uid /\ V[v].exited_at = None}
OpenVisitsAt(V, uid, place_id) == {v \in OpenVisits(V, uid) : V[v].place_id = place_id}

\* --------------------------------------------------------- current-place cache
\* Variant: the except clause is missing and the Redis error leaves the call.
set_current_place_cache_raises(C, uid, place_id, ok) ==
    [cache |-> IF ok THEN [C EXCEPT ![uid] = place_id] ELSE C, raised |-> ~ok]

\* ok = FALSE: the Redis call raised.  The except clause swallows it, so the
\* call itself never raises; the key then keeps the value it had.
set_current_place_cache(C, uid, place_id, ok) ==
    [cache |-> IF ok THEN [C EXCEPT ![uid] = place_id] ELSE C, raised |-> FALSE]

\* A failed read is swallowed the same way and reads as a miss.
get_current_place_from_cache(C, uid, ok) ==
    [value |-> IF ok THEN C[uid] ELSE None, raised |-> FALSE]

\* ---------------------------------------------------------------- routine flag
\* Variant: the hours are compared around the clock (23 and 0 are 1 apart).
_is_routine_visit_circular(V, uid, place_id, t) ==
    LET similar_visits == {v \in DOMAIN V :
                              /\ V[v].uid = uid
                              /\ V[v].place_id = place_id
                              /\ V[v].day_of_week = weekday(t)
                              /\ V[v].entered_at >= t - ROUTINE_LOOKBACK_DAYS * Day}
    IN  /\ Cardinality(similar_visits) >= ROUTINE_MIN_VISITS
        /\ \E v \in similar_visits :
              \/ Abs(hour(V[v].entered_at) - hour(t)) <= ROUTINE_HOUR_WINDOW
              \/ 24 - Abs(hour(V[v].entered_at) - hour(t)) <= ROUTINE_HOUR_WINDOW

_is_routine_visit(V, uid, place_id, t) ==
    LET similar_visits == {v \in DOMAIN V :
                              /\ V[v].uid = uid
                              /\ V[v].place_id = place_id
                              /\ V[v].day_of_week = weekday(t)
                              /\ V[v].entered_at >= t - ROUTINE_LOOKBACK_DAYS * Day}
    IN  /\ Cardinality(similar_visits) >= ROUTINE_MIN_VISITS
        /\ \E v \in similar_visits :
              Abs(hour(V[v].entered_at) - hour(t)) <= ROUTINE_HOUR_WINDOW

\* ----------------------------------------------------------------- record_visit
\* Variant: the loop over open_visits is missing.
CloseOpenVisits_skipped(V, uid, t) == V

\* Variant: the query of the loop lacks the exited_at IS NULL filter.
CloseOpenVisits_unfiltered(V, uid, t) ==
    [v \in DOMAIN V |->
        IF V[v].uid = uid
        THEN [V[v] EXCEPT !.exited_at = t,
                          !.dwell_minutes = MinutesBetween(V[v].entered_at, t)]
        ELSE V[v]]

\* The loop over open_visits: every open visit of the owner is closed.
CloseOpenVisits(V, uid, t) ==
    [v \in DOMAIN V |->
        IF v \in OpenVisits(V, uid)
        THEN [V[v] EXCEPT !.exited_at = t,
                          !.dwell_minutes = MinutesBetween(V[v].entered_at, t)]
        ELSE V[v]]

\* The rows the existing_visit query can return.  With autoflush the pending
\* closes are written before the SELECT runs; without it the SELECT sees the
\* rows as stored and hands back the already modified objects.
ExistingVisit(V, closed, uid, place_id, flushes) ==
    IF flushes THEN OpenVisitsAt(closed, uid, place_id)
    ELSE OpenVisitsAt(V, uid, place_id)

\* Variant: first_visited is set on every visit.
CountVisit_resets(place, t) ==
    [place EXCEPT !.visit_count = @ + 1, !.last_visited = t, !.first_visited = t]

\* visit_count += 1, last_visited = now, first_visited = now if it was unset.
CountVisit(place, t) ==
    [place EXCEPT !.visit_count = @ + 1,
                  !.last_visited = t,
                  !.first_visited = IF @ = None THEN t ELSE @]

\* Variant: the open visits are closed before the place is looked up.
RecordVisitNoPlace_closes(db, uid, t) ==
    {[db |-> [db EXCEPT !.visits = CloseOpenVisits(db.visits, uid, t)], ret |-> None]}

\* "if not place: return None".
RecordVisitNoPlace(db, uid, t) == {[db |-> db, ret |-> None]}

\* The set of outcomes [db, ret] of record_visit; db = [places, visits, cache,
\* vseq, pseq].  An exception leaving the with block rolls the session back.
record_visit(db, uid, place_id, t, flushes, cacheOk) ==
    IF place_id \notin DOMAIN db.places
    THEN RecordVisitNoPlace(db, uid, t)
    ELSE
      LET closed == CloseOpenVisits(db.visits, uid, t)
          existing == ExistingVisit(db.visits, closed, uid, place_id, flushes)
          w == set_current_place_cache(db.cache, uid, place_id, cacheOk)
          id == db.vseq + 1
      IN  IF w.raised THEN {[db |-> db, ret |-> Raised]}
          ELSE IF existing # {}
          THEN {[db |-> [db EXCEPT !.visits = closed, !.cache = w.cache], ret |-> v] :
                    v \in existing}
          ELSE {[db |-> [db EXCEPT
                           !.places[place_id] = CountVisit(@, t),
                           !.visits = Extend(closed, id,
                                         NewVisit(uid, place_id, t,
                                             _is_routine_visit(closed, uid, place_id, t))),
                           !.cache = w.cache,
                           !.vseq = id],
                 ret |-> id]}

\* -------------------------------------------------------------------- end_visit
\* Variant: the cache key is deleted before the visit is looked up.
EndVisitNoOpen_clears(db, uid) ==
    {[db |-> [db EXCEPT !.cache[uid] = None], ret |-> None]}

\* "if not visit: return None".
EndVisitNoOpen(db, uid) == {[db |-> db, ret |-> None]}

\* Variant: "=" for "+=".
AddDwell_assigns(place, dwell) ==
    [place EXCEPT !.total_dwell_time_minutes = dwell]

AddDwell(place, dwell) ==
    [place EXCEPT !.total_dwell_time_minutes = @ + dwell]

end_visit(db, uid, place_id, t, cacheOk) ==
    LET open == OpenVisitsAt(db.visits, uid, place_id)
        w == set_current_place_cache(db.cache, uid, None, cacheOk)
    IN  IF open = {} THEN EndVisitNoOpen(db, uid)
        ELSE IF w.raised THEN {[db |-> db, ret |-> Raised]}
        ELSE {LET dwell == MinutesBetween(db.visits[v].entered_at, t)
              IN  [db |-> [db EXCEPT
                       !.visits[v] = [@ EXCEPT !.exited_at = t, !.dwell_minutes = dwell],
                       !.places = IF place_id \in DOMAIN db.places
                                  THEN [@ EXCEPT ![place_id] = AddDwell(@, dwell)]
                                  ELSE @,
                       !.cache = w.cache],
                   ret |-> v] : v \in open}

\* ------------------------------------------------------------ get_current_place
\* The open visit with the latest entered_at (ORDER BY entered_at DESC, first row).
LatestOpenVisits(V, uid) ==
    {v \in OpenVisits(V, uid) :
        \A w \in OpenVisits(V, uid) : V[w].entered_at <= V[v].entered_at}

\* The authoritative path: the place of the owner's open visit.
CurrentPlaceFromStore(db, uid) ==
    IF OpenVisits(db.visits, uid) = {} THEN {None}
    ELSE {IF db.visits[v].place_id \in DOMAIN db.places
          THEN db.visits[v].place_id ELSE None : v \in LatestOpenVisits(db.visits, uid)}

\* The set of possible results of get_current_place (a place id or None).
get_current_place(db, uid, cacheOk) ==
    LET cached == get_current_place_from_cache(db.cache, uid, cacheOk)
    IN  IF cached.raised THEN {Raised}
        ELSE IF cached.value # None /\ cached.value \in DOMAIN db.places
        THEN {cached.value}
        ELSE CurrentPlaceFromStore(db, uid)

\* --------------------------------------------------- create / update / delete
\* The values of the enum PlaceCategory, and the names of its members.
PlaceCategory ==
    {"home", "work", "school", "gym", "restaurant", "shopping", "medical",
     "family", "friend", "other"}
PlaceCategoryMembers ==
    {"home", "work", "school", "gym", "restaurant", "shopping", "medical",
     "family", "friend", "other"}
ValueError == "<ValueError>"

\* category.value of a PlaceCategory is stored, any other value as it is.
create_place(db, uid, name, lat, radius, category) ==
    [db EXCEPT !.places = Extend(@, db.pseq + 1,
                                 NewPlace(uid, name, lat, radius, category)),
               !.pseq = @ + 1]

NoName == "<unset>"

\* PlaceUpdate carries name, latitude, longitude, radius_meters, category,
\* address, is_confirmed and metadata_json only; a field left None is skipped.
ApplyUpdate(place, upd) ==
    [place EXCEPT !.name = IF upd.name # NoName THEN upd.name ELSE @,
                  !.latitude = IF upd.latitude # None THEN upd.latitude ELSE @,
                  !.radius_meters = IF upd.radius_meters # None
                                    THEN upd.radius_meters ELSE @]

update_place(db, place_id, upd) ==
    IF place_id \notin DOMAIN db.places
    THEN [db |-> db, ret |-> None]
    ELSE [db |-> [db EXCEPT !.places[place_id] = ApplyUpdate(@, upd)],
          ret |-> place_id]

\* db.delete(place): the place row and, by the cascade, its visits.
delete_place(db, place_id) ==
    IF place_id \notin DOMAIN db.places
    THEN db
    ELSE [db EXCEPT
            !.places = Restrict(@, DOMAIN @ \ {place_id}),
            !.visits = Restrict(@, {v \in DOMAIN @ : @[v].place_id # place_id})]

\* ------------------------------------------------------- geofence entry / exit
\* Variant: the exit is signalled while the point is inside.
check_place_exit_inside(db, uid, lat) ==
    IF OpenVisits(db.visits, uid) = {} THEN {None}
    ELSE {IF /\ db.visits[v].place_id \in DOMAIN db.places
             /\ is_at_place(lat, db.places[db.visits[v].place_id])
          THEN db.visits[v].place_id ELSE None : v \in OpenVisits(db.visits, uid)}

\* The possible results of check_place_exit: .first() of the open visits.
check_place_exit(db, uid, lat) ==
    IF OpenVisits(db.visits, uid) = {} THEN {None}
    ELSE {IF /\ db.visits[v].place_id \in DOMAIN db.places
             /\ ~is_at_place(lat, db.places[db.visits[v].place_id])
          THEN db.visits[v].place_id ELSE None : v \in OpenVisits(db.visits, uid)}

\* The rows of the query of check_place_entry.
PlacesOf(P, uid) == {p \in DOMAIN P : P[p].uid = uid}

\* Variant: the loop goes on after a match, so the last match is returned.
EntryInOrder_last(db, uid, lat, order) ==
    LET hits == {p \in DOMAIN db.places :
                    /\ is_at_place(lat, db.places[p])
                    /\ OpenVisitsAt(db.visits, uid, p) = {}}
        ks == {k \in DOMAIN order : order[k] \in hits}
    IN  IF ks = {} THEN None
        ELSE order[CHOOSE k \in ks : \A j \in ks : j <= k]

\* The loop of check_place_entry over the owner's rows in the order the query
\* returned them: the first place that contains the point and has no open visit
\* of the owner.
EntryInOrder(db, uid, lat, order) ==
    LET hits == {p \in DOMAIN db.places :
                    /\ is_at_place(lat, db.places[p])
                    /\ OpenVisitsAt(db.visits, uid, p) = {}}
    IN  IF FirstIndex(order, hits) = 0 THEN None
        ELSE order[FirstIndex(order, hits)]

\* The possible results of check_place_entry: the query has no ORDER BY.
check_place_entry(db, uid, lat) ==
    {EntryInOrder(db, uid, lat, order) : order \in Orders(PlacesOf(db.places, uid))}

\* ------------------------------------------------------ ensure_home_place_exists
HOME_LAT == 0
Lower(name) == IF name = "Home" THEN "home" ELSE name

\* env is what os.environ.get("HOME_LOCATION") gives: "unset", "invalid" (not
\* 'lat,lon') or "valid"; fails = list_places / create_place raised (caught).
\* The result is the store afterwards; the flag is set on every path.
ensure_home_place_exists(db, checked, env, uid, fails) ==
    IF checked \/ env # "valid" \/ fails THEN db
    ELSE IF \E p \in DOMAIN db.places :
               db.places[p].uid = uid /\ Lower(db.places[p].name) = "home"
         THEN db
         ELSE create_place(db, uid, "Home", HOME_LAT, DEFAULT_RADIUS, "home")

\* -------------------------------------------------------- process_place_detection
Steps == {"check_place_exit", "end_visit", "check_place_entry", "record_visit",
          "check_location_triggered_tasks"}
NoFailure == "none"

\* The failures of a tick that leave different stores behind: none, or one after
\* the exit was handled.  (One before it leaves the store as it was, and one in
\* record_visit leaves what a failing entry check leaves.)
TickFailures == {NoFailure, "check_place_entry"}

\* check_location_triggered_tasks catches what its query raises: the tick goes on.
TriggerOutcome(db, failAt) ==
    [db |-> db, raised |-> failAt = "check_location_triggered_tasks", aborted |-> FALSE]

Aborted(db) == [db |-> db, raised |-> TRUE, aborted |-> TRUE]

\* One call of a tick, as it is written down in the order of the calls.
TickCall(op, place_id) == [op |-> op, place_id |-> place_id]

\* An outcome with the calls that led to it.
WithCalls(o, calls) ==
    [db |-> o.db, raised |-> o.raised, aborted |-> o.aborted, calls |-> calls]

\* After the exit check gave ex: the outcomes of end_visit and the departure
\* trigger.  aborted: an exception reached the except clause of the tick.
DetectExit(db, uid, ex, t, failAt, cacheOk) ==
    IF ex = None
    THEN {WithCalls([db |-> db, raised |-> FALSE, aborted |-> FALSE], <<>>)}
    ELSE IF failAt = "end_visit"
    THEN {WithCalls(Aborted(db), <<TickCall("end_visit", ex)>>)}
    ELSE {IF r.ret = Raised
          THEN WithCalls(Aborted(db), <<TickCall("end_visit", ex)>>)
          ELSE WithCalls(TriggerOutcome(r.db, failAt),
                         <<TickCall("end_visit", ex), TickCall("departure", ex)>>) :
              r \in end_visit(db, uid, ex, t, cacheOk)}

\* After the entry check gave en: the outcomes of record_visit and the arrival
\* trigger.
DetectEntry(db, uid, en, t, flushes, failAt, cacheOk) ==
    IF en = None
    THEN {WithCalls([db |-> db, raised |-> FALSE, aborted |-> FALSE], <<>>)}
    ELSE IF failAt = "record_visit"
    THEN {WithCalls(Aborted(db), <<TickCall("record_visit", en)>>)}
    ELSE {IF r.ret = Raised
          THEN WithCalls(Aborted(db), <<TickCall("record_visit", en)>>)
          ELSE WithCalls(TriggerOutcome(r.db, failAt),
                         <<TickCall("record_visit", en), TickCall("arrival", en)>>) :
              r \in record_visit(db, uid, en, t, flushes, cacheOk)}

\* Variant: the entry is handled before the exit.
process_place_detection_entry_first(db, uid, lat, t, flushes, failAt, cacheOk) ==
    IF failAt = "check_place_entry" THEN {[db |-> db, raised |-> TRUE, calls |-> <<>>]}
    ELSE UNION {
           UNION {
             IF e.aborted
             THEN {[db |-> e.db, raised |-> TRUE,
                    calls |-> <<TickCall("check_place_entry", en)>> \o e.calls]}
             ELSE IF failAt = "check_place_exit"
             THEN {[db |-> e.db, raised |-> TRUE,
                    calls |-> <<TickCall("check_place_entry", en)>> \o e.calls]}
             ELSE UNION {
                    {[db |-> s.db, raised |-> s.raised \/ e.raised,
                      calls |-> <<TickCall("check_place_entry", en)>> \o e.calls
                                \o <<TickCall("check_place_exit", ex)>> \o s.calls] :
                        s \in DetectExit(e.db, uid, ex, t, failAt, cacheOk)}
                    : ex \in check_place_exit(e.db, uid, lat)}
             : e \in DetectEntry(db, uid, en, t, flushes, failAt, cacheOk)}
           : en \in check_place_entry(db, uid, lat)}

\* The outcomes [db, raised, calls] of one tick.  A step that raises leaves the
\* store as it was before that step (its session is rolled back) and skips the
\* rest; raised tells that an exception was raised and caught on the way; calls
\* lists, in their order, the checks that returned, each with the place it
\* returned, and the calls made for that place.
process_place_detection(db, uid, lat, t, flushes, failAt, cacheOk) ==
    IF failAt = "check_place_exit" THEN {[db |-> db, raised |-> TRUE, calls |-> <<>>]}
    ELSE UNION {
           UNION {
             IF s.aborted
             THEN {[db |-> s.db, raised |-> TRUE,
                    calls |-> <<TickCall("check_place_exit", ex)>> \o s.calls]}
             ELSE IF failAt = "check_place_entry"
             THEN {[db |-> s.db, raised |-> TRUE,
                    calls |-> <<TickCall("check_place_exit", ex)>> \o s.calls]}
             ELSE UNION {
                    {[db |-> e.db, raised |-> s.raised \/ e.raised,
                      calls |-> <<TickCall("check_place_exit", ex)>> \o s.calls
                                \o <<TickCall("check_place_entry", en)>> \o e.calls] :
                        e \in DetectEntry(s.db, uid, en, t, flushes, failAt, cacheOk)}
                    : en \in check_place_entry(s.db, uid, lat)}
             : s \in DetectExit(db, uid, ex, t, failAt, cacheOk)}
           : ex \in check_place_exit(db, uid, lat)}

\* --------------------------------------------------------- receive_overland_data
\* Whether an exception raised inside the try of process_place_detection leaves it.
DetectionEscapes(raised) == FALSE

\* Variant: the outer try / except is missing.
receive_response_unguarded(raisedInTry) == IF raisedInTry THEN "error" ELSE "ok"

\* The response, given whether an exception was raised inside the outer try.
receive_response(raisedInTry) == "ok"

\* ------------------------------------------------------------------ arithmetic
RECURSIVE SumSeq(_)
SumSeq(s) == IF s = <<>> THEN 0 ELSE Head(s) + SumSeq(Tail(s))

\* round(num / den) for den > 0: Python rounds a half to the even neighbour.
RoundHalfEven(num, den) ==
    LET q == (2 * num + den) \div (2 * den)
    IN  IF (2 * num + den) % (2 * den) = 0 /\ q % 2 = 1 THEN q - 1 ELSE q

\* ---------------------------------------------------- discover_frequent_locations
STATIONARY_SPEED == 2
SESSION_GAP_MINUTES == 30
SESSION_GAP_METERS == 500
MAX_SUGGESTIONS == 10
DEFAULT_HOUR == 12

\* One LocationDB row.
Fix(uid, lat, t, speed) ==
    [uid |-> uid, latitude |-> lat, timestamp |-> t, speed |-> speed]

\* Variant: the speed filter keeps the moving fixes.
StationaryFixes_moving(F, uid, cutoff) ==
    SelectSeq(F, LAMBDA loc : /\ loc.uid = uid
                              /\ loc.timestamp >= cutoff
                              /\ loc.speed >= STATIONARY_SPEED)

\* The query of discover_frequent_locations; the rows are stored in timestamp
\* order and the query returns them ordered by timestamp.
StationaryFixes(F, uid, cutoff) ==
    SelectSeq(F, LAMBDA loc : /\ loc.uid = uid
                              /\ loc.timestamp >= cutoff
                              /\ loc.speed < STATIONARY_SPEED)

\* A fix within radius_meters of one of the owner's places.
NearExisting(loc, P, uid) ==
    \E p \in DOMAIN P :
        /\ P[p].uid = uid
        /\ _haversine_distance_meters(loc.latitude, P[p].latitude) <= P[p].radius_meters

NewSession(loc) ==
    [points |-> <<loc.latitude>>, start_time |-> loc.timestamp,
     end_time |-> loc.timestamp]

\* Variant: a fix exactly 30 minutes later or exactly 500 m away ends the session.
SplitsSession_exclusive(session, loc) ==
    \/ loc.timestamp - session.end_time >= SESSION_GAP_MINUTES * Minute
    \/ Abs(Len(session.points) * loc.latitude - SumSeq(session.points))
          >= SESSION_GAP_METERS * Len(session.points)

\* Variant: only the distance ends a session, the time gap is not looked at.
SplitsSession_distance_only(session, loc) ==
    Abs(Len(session.points) * loc.latitude - SumSeq(session.points))
        > SESSION_GAP_METERS * Len(session.points)

\* time_gap > 30 or dist > 500, dist being the distance of the fix from the mean
\* of the session's points (both sides multiplied by the number of points).
SplitsSession(session, loc) ==
    \/ loc.timestamp - session.end_time > SESSION_GAP_MINUTES * Minute
    \/ Abs(Len(session.points) * loc.latitude - SumSeq(session.points))
          > SESSION_GAP_METERS * Len(session.points)

\* One pass of the loop over locations.  open tells whether current_session is
\* a session (not None).
SessionStep(st, loc, P, uid) ==
    IF NearExisting(loc, P, uid)
    THEN [st EXCEPT !.sessions = IF st.open THEN Append(@, st.cur) ELSE @,
                    !.open = FALSE]
    ELSE IF ~st.open
    THEN [st EXCEPT !.open = TRUE, !.cur = NewSession(loc)]
    ELSE IF SplitsSession(st.cur, loc)
    THEN [st EXCEPT !.sessions = Append(@, st.cur), !.cur = NewSession(loc)]
    ELSE [st EXCEPT !.cur.points = Append(@, loc.latitude),
                    !.cur.end_time = loc.timestamp]

RECURSIVE SessionLoop(_, _, _, _)
\* (The test on the new state has it computed before the next pass.)
SessionLoop(st, locs, P, uid) ==
    IF locs = <<>> THEN st
    ELSE LET next == SessionStep(st, Head(locs), P, uid)
             rest == Tail(locs)
         IN  IF next.open \in BOOLEAN /\ Len(rest) >= 0
             THEN SessionLoop(next, rest, P, uid)
             ELSE st

\* Variant: the session in progress after the last fix is dropped.
DwellSessions_unflushed(locs, P, uid) ==
    SessionLoop([sessions |-> <<>>, open |-> FALSE,
                 cur |-> [points |-> <<>>, start_time |-> 0, end_time |-> 0]],
                locs, P, uid).sessions

\* Step 1: the dwell sessions of a run of fixes, the last one included.
DwellSessions(locs, P, uid) ==
    LET st == SessionLoop([sessions |-> <<>>, open |-> FALSE,
                           cur |-> [points |-> <<>>, start_time |-> 0, end_time |-> 0]],
                          locs, P, uid)
    IN  IF st.open THEN Append(st.sessions, st.cur) ELSE st.sessions

\* Variant: the first bucket does not come first.
_suggest_category_from_times_reordered(hours) ==
    LET n == IF hours = <<>> THEN 1 ELSE Len(hours)
        total == IF hours = <<>> THEN DEFAULT_HOUR ELSE SumSeq(hours)
    IN  IF 9 * n <= total /\ total <= 17 * n THEN "work"
        ELSE IF 6 * n <= total /\ total <= 10 * n THEN "work"
        ELSE IF 11 * n <= total /\ total <= 14 * n THEN "restaurant"
        ELSE IF 17 * n <= total /\ total <= 21 * n THEN "restaurant"
        ELSE "home"

\* avg_hour = sum(hours) / len(hours), 12 for no hours; the comparisons are those
\* of the code, both sides multiplied by len(hours).
_suggest_category_from_times(hours) ==
    LET n == IF hours = <<>> THEN 1 ELSE Len(hours)
        total == IF hours = <<>> THEN DEFAULT_HOUR ELSE SumSeq(hours)
    IN  IF 6 * n <= total /\ total <= 10 * n THEN "work"
        ELSE IF 11 * n <= total /\ total <= 14 * n THEN "restaurant"
        ELSE IF 9 * n <= total /\ total <= 17 * n THEN "work"
        ELSE IF 17 * n <= total /\ total <= 21 * n THEN "restaurant"
        ELSE "home"

\* Whether the centroids of two sessions are within radius of each other: the
\* means sum / len, compared after multiplying by both lengths.
CentroidsWithin(a, b, radius) ==
    Abs(SumSeq(a.points) * Len(b.points) - SumSeq(b.points) * Len(a.points))
        <= radius * Len(a.points) * Len(b.points)

\* Variant: the inner loop also takes sessions that an earlier cluster holds.
ClusterMembers_reuses(sessions, i, used, radius) ==
    SelectSeq([j \in 1..Len(sessions) |-> j],
              LAMBDA j : j = i \/ CentroidsWithin(sessions[i], sessions[j], radius))

\* The indexes the inner loop adds to the cluster of seed i, in order.
ClusterMembers(sessions, i, used, radius) ==
    SelectSeq([j \in 1..Len(sessions) |-> j],
              LAMBDA j : j = i \/ (/\ j \notin used
                                   /\ CentroidsWithin(sessions[i], sessions[j], radius)))

RECURSIVE GCD(_, _)
GCD(a, b) == IF b = 0 THEN a ELSE GCD(b, a % b)

\* The fraction num / den (den > 0) in lowest terms.
Reduced(num, den) ==
    LET g == GCD(Abs(num), den)
    IN  [num |-> num \div g, den |-> den \div g]

RECURSIVE SumCentroids(_, _, _)
\* The sum of the centroids of the member sessions as the fraction num / den.
SumCentroids(sessions, members, acc) ==
    IF members = <<>> THEN acc
    ELSE LET sess == sessions[Head(members)]
             sum == Reduced(acc.num * Len(sess.points) + SumSeq(sess.points) * acc.den,
                            acc.den * Len(sess.points))
         IN  IF sum.den > 0 THEN SumCentroids(sessions, Tail(members), sum) ELSE acc

SeqMin(s) == CHOOSE x \in {s[k] : k \in DOMAIN s} : \A k \in DOMAIN s : x <= s[k]
SeqMax(s) == CHOOSE x \in {s[k] : k \in DOMAIN s} : \A k \in DOMAIN s : x >= s[k]

\* Variant: visit_count counts the GPS pings of the member sessions.
Suggestion_counts_fixes(sessions, members) ==
    LET total == SumCentroids(sessions, members, [num |-> 0, den |-> 1])
    IN  [latitude |-> RoundHalfEven(total.num, total.den * Len(members)),
         visit_count |-> SumSeq([k \in DOMAIN members |-> Len(sessions[members[k]].points)]),
         suggested_category |->
             _suggest_category_from_times(
                 [k \in DOMAIN members |-> hour(sessions[members[k]].start_time)]),
         first_seen |-> SeqMin([k \in DOMAIN members |-> sessions[members[k]].start_time]),
         last_seen |-> SeqMax([k \in DOMAIN members |-> sessions[members[k]].end_time])]

\* The suggestion built from a cluster.  round(avg_lat, 6) puts the latitude on
\* the grid of stored coordinates, here whole metres.
Suggestion(sessions, members) ==
    LET total == SumCentroids(sessions, members, [num |-> 0, den |-> 1])
    IN  [latitude |-> RoundHalfEven(total.num, total.den * Len(members)),
         visit_count |-> Len(members),
         suggested_category |->
             _suggest_category_from_times(
                 [k \in DOMAIN members |-> hour(sessions[members[k]].start_time)]),
         first_seen |-> SeqMin([k \in DOMAIN members |-> sessions[members[k]].start_time]),
         last_seen |-> SeqMax([k \in DOMAIN members |-> sessions[members[k]].end_time])]

\* Variant: a cluster needs more than min_visits sessions.
KeepsCluster_above(visit_count, min_visits) == visit_count > min_visits

KeepsCluster(visit_count, min_visits) == visit_count >= min_visits

RECURSIVE ClusterLoop(_, _, _, _, _, _)
\* Step 2: the sessions are taken as seeds in order; a used session is skipped.
\* Each pass gives the member sessions of the seed's cluster and whether the
\* cluster is kept.  (The test on the new values has them computed before the
\* next pass.)
ClusterLoop(sessions, i, used, clusters, radius, min_visits) ==
    IF i > Len(sessions) THEN clusters
    ELSE IF i \in used
    THEN ClusterLoop(sessions, i + 1, used, clusters, radius, min_visits)
    ELSE LET members == ClusterMembers(sessions, i, used, radius)
             now_used == used \cup {members[k] : k \in DOMAIN members}
             now_clusters ==
                 Append(clusters, [members |-> members,
                                   kept |-> KeepsCluster(Len(members), min_visits)])
         IN  IF i \in now_used /\ Len(now_clusters) >= 0
             THEN ClusterLoop(sessions, i + 1, now_used, now_clusters, radius, min_visits)
             ELSE clusters

\* The clusters over the dwell sessions, kept or not, in the order of their seeds.
ClustersOf(sessions, radius, min_visits) ==
    ClusterLoop(sessions, 1, {}, <<>>, radius, min_visits)

\* clusters: a suggestion for each cluster that is kept.
KeptSuggestions(sessions, radius, min_visits) ==
    LET kept == SelectSeq(ClustersOf(sessions, radius, min_visits), LAMBDA c : c.kept)
    IN  [k \in DOMAIN kept |-> Suggestion(sessions, kept[k].members)]

RECURSIVE InsertByCount(_, _)
\* Where a stable sort by visit_count, largest first, puts c among sorted ones.
InsertByCount(sorted, c) ==
    IF sorted = <<>> THEN <<c>>
    ELSE IF Head(sorted).visit_count >= c.visit_count
    THEN <<Head(sorted)>> \o InsertByCount(Tail(sorted), c)
    ELSE <<c>> \o sorted

RECURSIVE SortByCount(_, _)
SortByCount(clusters, sorted) ==
    IF clusters = <<>> THEN sorted
    ELSE SortByCount(Tail(clusters), InsertByCount(sorted, Head(clusters)))

\* The suggestions of discover_frequent_locations at time t.
discover_frequent_locations(F, P, uid, min_visits, cluster_radius_meters, days_back, t) ==
    LET locs == StationaryFixes(F, uid, t - days_back * Day)
        dwell_sessions == DwellSessions(locs, P, uid)
        clusters == SortByCount(KeptSuggestions(dwell_sessions, cluster_radius_meters,
                                                min_visits), <<>>)
    IN  IF Len(clusters) <= MAX_SUGGESTIONS THEN clusters
        ELSE SubSeq(clusters, 1, MAX_SUGGESTIONS)

\* ------------------------------------------------------------------- routines
TYPICAL_LOOKBACK_DAYS == 28
TYPICAL_HOUR_WINDOW == 1
ROUTINE_MIN_COUNT == 2

\* The rows of the query of _get_typical_place_for_time.
TypicalVisits(V, uid, t) ==
    {v \in DOMAIN V : /\ V[v].uid = uid
                      /\ V[v].day_of_week = weekday(t)
                      /\ V[v].entered_at >= t - TYPICAL_LOOKBACK_DAYS * Day}

\* Variant: the window is two hours wide.
TypicalHourMatches_wide(visit_hour, at_hour) ==
    Abs(visit_hour - at_hour) <= TYPICAL_HOUR_WINDOW + 1

TypicalHourMatches(visit_hour, at_hour) ==
    Abs(visit_hour - at_hour) <= TYPICAL_HOUR_WINDOW

\* The name _get_typical_place_for_time returns when the query hands the visits
\* over in the given order (NoName for None): place_counts gets its keys in the
\* order the places are met, and max() gives the first key with the largest count.
_get_typical_place_for_time(V, P, uid, t, order) ==
    LET counted == SelectSeq(order, LAMBDA v :
                       TypicalHourMatches(hour(V[v].entered_at), hour(t)))
        keys == {V[counted[k]].place_id : k \in DOMAIN counted}
        count(p) == Cardinality({k \in DOMAIN counted : V[counted[k]].place_id = p})
        met(p) == FirstIndex(counted, {v \in DOMAIN V : V[v].place_id = p})
    IN  IF keys = {} THEN NoName
        ELSE LET most_common_place_id ==
                     CHOOSE p \in keys : \A q \in keys :
                         \/ count(p) > count(q)
                         \/ count(p) = count(q) /\ met(p) <= met(q)
             IN  IF most_common_place_id \in DOMAIN P
                 THEN P[most_common_place_id].name ELSE NoName

\* The rows of the query of get_routines: the owner's visits since the cutoff,
\* joined with their places.
RoutineVisits(V, P, uid, days_back, t) ==
    {v \in DOMAIN V : /\ V[v].uid = uid
                      /\ V[v].place_id \in DOMAIN P
                      /\ V[v].entered_at >= t - days_back * Day}

\* Variant: the number of weeks is rounded up, so it is never 0.
RoutineWeeks_ceiling(days_back) == (days_back + 6) \div 7

\* weeks = days_back // 7
RoutineWeeks(days_back) == days_back \div 7

\* round(min(count / weeks, 1.0), 2) in hundredths, for weeks > 0.  (The program
\* rounds the binary fraction; the two agree except on some decimal halves
\* with weeks a multiple of 40.)
RoutineConfidence(count, weeks) ==
    IF count >= weeks THEN 100 ELSE RoundHalfEven(100 * count, weeks)

\* The cell (place, day, hour) of a visit.
RoutineCell(visit) ==
    [place_id |-> visit.place_id, day |-> visit.day_of_week,
     hour |-> hour(visit.entered_at)]

\* patterns.items() and the dicts inside it list place, day and hour in the
\* order the visits brought them: whether cell a is listed before cell b.
CellBefore(V, order, a, b) ==
    LET cell(v) == RoutineCell(V[v])
        ofPlace(c) == {v \in DOMAIN V : cell(v).place_id = c.place_id}
        ofDay(c) == {v \in ofPlace(c) : cell(v).day = c.day}
        ofHour(c) == {v \in DOMAIN V : cell(v) = c}
        pa == FirstIndex(order, ofPlace(a))
        pb == FirstIndex(order, ofPlace(b))
        da == FirstIndex(order, ofDay(a))
        db == FirstIndex(order, ofDay(b))
        ha == FirstIndex(order, ofHour(a))
        hb == FirstIndex(order, ofHour(b))
    IN  \/ pa < pb
        \/ pa = pb /\ da < db
        \/ pa = pb /\ da = db /\ ha < hb

\* The cells in the order the loops over patterns go through them.
CellsInOrder(V, order) ==
    LET cells == {RoutineCell(V[order[k]]) : k \in DOMAIN order}
    IN  CHOOSE seq \in Orders(cells) :
            \A i, j \in DOMAIN seq : i < j => CellBefore(V, order, seq[i], seq[j])

RECURSIVE InsertByConfidence(_, _)
\* Where the stable sort by (confidence, occurrence_count), largest first, puts r.
InsertByConfidence(sorted, r) ==
    IF sorted = <<>> THEN <<r>>
    ELSE IF \/ Head(sorted).confidence > r.confidence
            \/ /\ Head(sorted).confidence = r.confidence
               /\ Head(sorted).occurrence_count >= r.occurrence_count
    THEN <<Head(sorted)>> \o InsertByConfidence(Tail(sorted), r)
    ELSE <<r>> \o sorted

RECURSIVE SortByConfidence(_, _)
SortByConfidence(routines, sorted) ==
    IF routines = <<>> THEN sorted
    ELSE SortByConfidence(Tail(routines), InsertByConfidence(sorted, Head(routines)))

\* get_routines at time t, the query handing the visits over in the given order.
\* A cell with count >= 2 divides by weeks: with weeks = 0 the call raises
\* ZeroDivisionError.  confidence is in hundredths.
get_routines(V, P, uid, days_back, t, order) ==
    LET count(c) == Cardinality({k \in DOMAIN order : RoutineCell(V[order[k]]) = c})
        cells == SelectSeq(CellsInOrder(V, order),
                           LAMBDA c : count(c) >= ROUTINE_MIN_COUNT)
        weeks == RoutineWeeks(days_back)
    IN  IF cells # <<>> /\ weeks = 0
        THEN [raised |-> TRUE, value |-> <<>>]
        ELSE [raised |-> FALSE,
              value |-> SortByConfidence(
                  [k \in DOMAIN cells |->
                      [place_id |-> cells[k].place_id,
                       place_name |-> P[cells[k].place_id].name,
                       day_number |-> cells[k].day,
                       hour |-> cells[k].hour,
                       occurrence_count |-> count(cells[k]),
                       confidence |-> RoutineConfidence(count(cells[k]), weeks)]],
                  <<>>)]

\* The possible results of check_routine_deviation at time t: <<>> for None, or
\* the deviation record.  The current place is what get_current_place gives.
check_routine_deviation(db, uid, t, order, cacheOk) ==
    LET typical_place == _get_typical_place_for_time(db.visits, db.places, uid, t, order)
    IN  IF typical_place = NoName THEN {<<>>}
        ELSE {LET current_name == IF current \in DOMAIN db.places
                                  THEN db.places[current].name ELSE NoName
              IN  IF current_name = typical_place THEN <<>>
                  ELSE <<[is_deviation |-> TRUE,
                          typical_place |-> typical_place,
                          current_place |-> current_name,
                          expected_time |-> hour(t),
                          day |-> weekday(t)]>>
              : current \in get_current_place(db, uid, cacheOk)}

\* ===================================================================== state
VARIABLES
    places,              \* PlaceDB rows: place id -> row
    visits,              \* PlaceVisitDB rows: visit id -> row
    cache,               \* Redis current_place:{uid}: uid -> place id or None
    vseq,                \* visit ids handed out so far
    pseq,                \* place ids handed out so far
    locations,           \* number of stored LocationDB rows (fixes)
    now,                 \* datetime.utcnow()
    autoflush,           \* whether the session flushes before a query
    home_place_checked,  \* overland._home_place_checked
    response,            \* last result of receive_overland_data
    ret,                 \* what the last service call returned (an id or None)
    last,                \* the last call: operation, arguments, what happened
    proc,                \* the requests in flight: where each one is, what it holds
    fixes,               \* LocationDB rows of the owner, in timestamp order
    result               \* what the last analysis call returned

vars == <<places, visits, cache, vseq, pseq, locations, now, autoflush,
          home_place_checked, response, ret, last, proc, fixes, result>>

DB == [places |-> places, visits |-> visits, cache |-> cache,
       vseq |-> vseq, pseq |-> pseq]

SetDB(db) ==
    /\ places' = db.places
    /\ visits' = db.visits
    /\ cache' = db.cache
    /\ vseq' = db.vseq
    /\ pseq' = db.pseq

Call(op, uid, place_id, cacheOk, raised, stored) ==
    [op |-> op, uid |-> uid, place_id |-> place_id, cacheOk |-> cacheOk,
     raised |-> raised, stored |-> stored]

\* What result holds before any analysis call: nothing raised, no value.
NoResult == [raised |-> FALSE, value |-> <<>>]

\* ------------------------------------------------------------------ inputs
\* The requests that can be in flight together.
Requests == {1, 2}
Idle == [pc |-> "idle", lat |-> 0, place |-> None,
         visitWrites |-> <<>>, placeWrites |-> <<>>]

WEDNESDAY_9AM == 2 * Day + 9 * Hour
ClockValues == {WEDNESDAY_9AM, WEDNESDAY_9AM + 2 * Hour + 45}
PlaceLats == {0, 200}
FixLats == {0, 100, 250, 400}
PlaceNames == {"Gym"}
Updates == {[name |-> NoName, latitude |-> 200, radius_meters |-> 50]}
HomeEnv == {"unset", "invalid", "valid"}
Payloads == {"empty", "malformed", "point"}

Init ==
    /\ places = <<>>
    /\ visits = <<>>
    /\ cache = [u \in Users |-> None]
    /\ vseq = 0
    /\ pseq = 0
    /\ locations = 0
    /\ now = WEDNESDAY_9AM
    /\ autoflush \in BOOLEAN
    /\ home_place_checked = FALSE
    /\ response = "none"
    /\ ret = None
    /\ last = Call("init", USER_ID, None, TRUE, FALSE, 0)
    /\ proc = [i \in Requests |-> Idle]
    /\ fixes = <<>>
    /\ result = NoResult

\* ----------------------------------------------------------------- actions
Advance ==
    /\ \E t \in ClockValues : t > now /\ now' = t
    /\ last' = Call("advance", USER_ID, None, TRUE, FALSE, 0)
    /\ UNCHANGED <<places, visits, cache, vseq, pseq, locations, autoflush,
                   home_place_checked, response, ret, proc, fixes, result>>

CreatePlace ==
    /\ pseq + 1 \in PlaceIds
    /\ \E name \in PlaceNames, lat \in PlaceLats :
          /\ SetDB(create_place(DB, USER_ID, name, lat, DEFAULT_RADIUS, "other"))
          /\ ret' = pseq + 1
          /\ last' = Call("create_place", USER_ID, pseq + 1, TRUE, FALSE, 0)
    /\ UNCHANGED <<locations, now, autoflush, home_place_checked, response, proc, fixes, result>>

UpdatePlace ==
    /\ \E place_id \in PlaceIds, upd \in Updates :
          LET r == update_place(DB, place_id, upd)
          IN  /\ SetDB(r.db)
              /\ ret' = r.ret
              /\ last' = Call("update_place", USER_ID, place_id, TRUE, FALSE, 0)
    /\ UNCHANGED <<locations, now, autoflush, home_place_checked, response, proc, fixes, result>>

DeletePlace ==
    /\ \E place_id \in PlaceIds :
          /\ SetDB(delete_place(DB, place_id))
          /\ ret' = IF place_id \in DOMAIN places THEN place_id ELSE None
          /\ last' = Call("delete_place", USER_ID, place_id, TRUE, FALSE, 0)
    /\ UNCHANGED <<locations, now, autoflush, home_place_checked, response, proc, fixes, result>>

RecordVisit ==
    /\ \E uid \in Callers, place_id \in PlaceIds, cacheOk \in BOOLEAN :
          \E r \in record_visit(DB, uid, place_id, now, autoflush, cacheOk) :
              /\ r.db.vseq <= MaxVisits
              /\ SetDB(r.db)
              /\ ret' = r.ret
              /\ last' = Call("record_visit", uid, place_id, cacheOk, FALSE, 0)
    /\ UNCHANGED <<locations, now, autoflush, home_place_checked, response, proc, fixes, result>>

EndVisit ==
    /\ \E uid \in Callers, place_id \in PlaceIds, cacheOk \in BOOLEAN :
          \E r \in end_visit(DB, uid, place_id, now, cacheOk) :
              /\ SetDB(r.db)
              /\ ret' = r.ret
              /\ last' = Call("end_visit", uid, place_id, cacheOk, FALSE, 0)
    /\ UNCHANGED <<locations, now, autoflush, home_place_checked, response, proc, fixes, result>>

GetCurrentPlace ==
    /\ \E uid \in Callers, cacheOk \in BOOLEAN :
          \E r \in get_current_place(DB, uid, cacheOk) :
              /\ ret' = r
              /\ last' = Call("get_current_place", uid, None, cacheOk, FALSE, 0)
    /\ UNCHANGED <<places, visits, cache, vseq, pseq, locations, now, autoflush,
                   home_place_checked, response, proc, fixes, result>>

\* The 24 hour expiry of the cache key.
CacheExpire ==
    /\ \E uid \in Users :
          /\ cache[uid] # None
          /\ cache' = [cache EXCEPT ![uid] = None]
          /\ last' = Call("expire", uid, None, TRUE, FALSE, 0)
    /\ UNCHANGED <<places, visits, vseq, pseq, locations, now, autoflush,
                   home_place_checked, response, ret, proc, fixes, result>>

\* One tick of process_place_detection for the last fix of a batch.
ProcessPlaceDetection ==
    /\ \E lat \in FixLats, failAt \in TickFailures, cacheOk \in BOOLEAN :
          \E o \in process_place_detection(DB, USER_ID, lat, now, autoflush,
                                           failAt, cacheOk) :
              /\ o.db.vseq <= MaxVisits
              /\ SetDB(o.db)
              /\ last' = Call("process_place_detection", USER_ID, None, cacheOk,
                              o.raised, 0)
    /\ UNCHANGED <<locations, now, autoflush, home_place_checked, response, ret, proc, fixes, result>>

\* One POST of a batch: the fixes are stored, then the home place is ensured
\* and the last fix of the batch drives process_place_detection.
ReceiveOverlandData ==
    /\ \E payload \in Payloads, lat \in FixLats,
          env \in (IF home_place_checked THEN {"unset"} ELSE HomeEnv),
          homeFails \in BOOLEAN, failAt \in Steps \cup {NoFailure} :
          LET stored == IF payload = "point" THEN 1 ELSE 0
              db1 == ensure_home_place_exists(DB, home_place_checked, env,
                                              USER_ID, homeFails)
              outcomes == IF payload = "point"
                          THEN process_place_detection(db1, USER_ID, lat, now,
                                                       autoflush, failAt, TRUE)
                          ELSE {[db |-> db1, raised |-> FALSE, calls |-> <<>>]}
          IN  /\ homeFails => env = "valid"
              /\ payload # "point" => (lat = 0 /\ failAt = NoFailure)
              /\ locations + stored <= MaxFixes
              /\ db1.pseq = pseq \/ db1.pseq \in PlaceIds
              /\ \E o \in outcomes :
                    /\ o.db.vseq <= MaxVisits
                    /\ SetDB(o.db)
                    /\ response' = receive_response(
                                      payload = "malformed" \/ DetectionEscapes(o.raised))
                    /\ last' = Call("receive_overland_data", USER_ID, None, TRUE,
                                    o.raised \/ payload = "malformed" \/ homeFails,
                                    stored)
              /\ locations' = locations + stored
              /\ home_place_checked' = TRUE
    /\ UNCHANGED <<now, autoflush, ret, proc, fixes, result>>

Next ==
    \/ Advance
    \/ CreatePlace
    \/ UpdatePlace
    \/ DeletePlace
    \/ RecordVisit
    \/ EndVisit
    \/ GetCurrentPlace
    \/ CacheExpire
    \/ ProcessPlaceDetection

Spec == Init /\ [][Next]_vars

\* The ingestion endpoint with the places it works on.
NextIngest ==
    \/ Advance
    \/ CreatePlace
    \/ ReceiveOverlandData

SpecIngest == Init /\ [][NextIngest]_vars

\* ------------------------------------------------------- the weekly scenario
\* One place, visited on a Wednesday at 09:00, on the next two Wednesdays at a
\* time of the window, on the fourth Wednesday at a time of the window and again
\* at 14:00; every visit is ended after STAY before the next one starts.
RoutineWindow == {8 * Hour + 30 * Minute, 9 * Hour, 9 * Hour + 30 * Minute,
                  10 * Hour, 10 * Hour + 30 * Minute}
Wednesday(week) == week * Week + 2 * Day
STAY == 20 * Minute

\* When visit number n of the scenario can start.
ScenarioTimes(n) ==
    CASE n = 1 -> {Wednesday(0) + 9 * Hour}
      [] n \in {2, 3, 4} -> {Wednesday(n - 1) + tod : tod \in RoutineWindow}
      [] n = 5 -> {Wednesday(3) + 14 * Hour}
      [] OTHER -> {}

InitRoutine ==
    /\ places = create_place([places |-> <<>>, visits |-> <<>>,
                              cache |-> [u \in Users |-> None],
                              vseq |-> 0, pseq |-> 0],
                             USER_ID, "Gym", 0, DEFAULT_RADIUS, "other").places
    /\ visits = <<>>
    /\ cache = [u \in Users |-> None]
    /\ vseq = 0
    /\ pseq = 1
    /\ locations = 0
    /\ now = WEDNESDAY_9AM
    /\ autoflush \in BOOLEAN
    /\ home_place_checked = FALSE
    /\ response = "none"
    /\ ret = 1
    /\ last = Call("create_place", USER_ID, 1, TRUE, FALSE, 0)
    /\ proc = [i \in Requests |-> Idle]
    /\ fixes = <<>>
    /\ result = NoResult

ScenarioArrive ==
    /\ OpenVisits(visits, USER_ID) = {}
    /\ \E t \in ScenarioTimes(vseq + 1) :
          /\ t >= now
          /\ now' = t
          /\ \E r \in record_visit(DB, USER_ID, 1, t, autoflush, TRUE) :
                /\ SetDB(r.db)
                /\ ret' = r.ret
                /\ last' = Call("record_visit", USER_ID, 1, TRUE, FALSE, 0)
    /\ UNCHANGED <<locations, autoflush, home_place_checked, response, proc, fixes, result>>

ScenarioLeave ==
    /\ OpenVisits(visits, USER_ID) # {}
    /\ now' = now + STAY
    /\ \E r \in end_visit(DB, USER_ID, 1, now + STAY, TRUE) :
          /\ SetDB(r.db)
          /\ ret' = r.ret
          /\ last' = Call("end_visit", USER_ID, 1, TRUE, FALSE, 0)
    /\ UNCHANGED <<locations, autoflush, home_place_checked, response, proc, fixes, result>>

NextRoutine ==
    \/ ScenarioArrive
    \/ ScenarioLeave

SpecRoutine == InitRoutine /\ [][NextRoutine]_vars

\* ---------------------------------------------------- requests run concurrently
\* Two batches of one owner are handled at once.  Every service call opens its
\* own session; end_visit and record_visit await the cache write inside the with
\* block, after the flush and before the commit, so another request runs between
\* the two.  A session reads what is committed and its writes show at its commit.
PlaceColumns == {"uid", "name", "latitude", "radius_meters", "visit_count",
                 "total_dwell_time_minutes", "first_visited", "last_visited"}

\* The rows a session inserted or updated, and the columns it set.
VisitWrites(old, new) ==
    [v \in {x \in DOMAIN new : x \notin DOMAIN old \/ new[x] # old[x]} |-> new[v]]
PlaceWrites(old, new) ==
    [p \in {x \in DOMAIN new : new[x] # old[x]} |->
        [row |-> new[p], cols |-> {c \in PlaceColumns : new[p][c] # old[p][c]}]]

\* The commit: the INSERTs and UPDATEs reach the tables.
CommitVisits(V, w) ==
    [v \in (DOMAIN V) \cup (DOMAIN w) |-> IF v \in DOMAIN w THEN w[v] ELSE V[v]]
CommitPlaces(P, w) ==
    [p \in DOMAIN P |->
        IF p \in DOMAIN w
        THEN [c \in PlaceColumns |-> IF c \in w[p].cols THEN w[p].row[c] ELSE P[p][c]]
        ELSE P[p]]

reqVars == <<locations, now, autoflush, home_place_checked, response, ret, last, pseq,
             fixes, result>>

RequestStart(i) ==
    /\ proc[i].pc = "idle"
    /\ \E lat \in FixLats : proc' = [proc EXCEPT ![i] = [Idle EXCEPT !.pc = "exit",
                                                                   !.lat = lat]]
    /\ UNCHANGED <<places, visits, cache, vseq>>
    /\ UNCHANGED reqVars

RequestCheckExit(i) ==
    /\ proc[i].pc = "exit"
    /\ \E ex \in check_place_exit(DB, USER_ID, proc[i].lat) :
          proc' = [proc EXCEPT ![i].pc = IF ex = None THEN "entry" ELSE "end_visit",
                               ![i].place = ex]
    /\ UNCHANGED <<places, visits, cache, vseq>>
    /\ UNCHANGED reqVars

\* end_visit up to its await: the session holds its writes, the cache is written.
RequestEndVisit(i) ==
    /\ proc[i].pc = "end_visit"
    /\ \E r \in end_visit(DB, USER_ID, proc[i].place, now, TRUE) :
          /\ proc' = [proc EXCEPT ![i].pc = "end_visit_commit",
                                  ![i].visitWrites = VisitWrites(visits, r.db.visits),
                                  ![i].placeWrites = PlaceWrites(places, r.db.places)]
          /\ cache' = r.db.cache
    /\ UNCHANGED <<places, visits, vseq>>
    /\ UNCHANGED reqVars

RequestEndVisitCommit(i) ==
    /\ proc[i].pc = "end_visit_commit"
    /\ visits' = CommitVisits(visits, proc[i].visitWrites)
    /\ places' = CommitPlaces(places, proc[i].placeWrites)
    /\ proc' = [proc EXCEPT ![i] = [Idle EXCEPT !.pc = "entry", !.lat = proc[i].lat]]
    /\ UNCHANGED <<cache, vseq>>
    /\ UNCHANGED reqVars

RequestCheckEntry(i) ==
    /\ proc[i].pc = "entry"
    /\ \E en \in check_place_entry(DB, USER_ID, proc[i].lat) :
          proc' = [proc EXCEPT ![i] = IF en = None THEN Idle
                                      ELSE [@ EXCEPT !.pc = "record_visit",
                                                     !.place = en]]
    /\ UNCHANGED <<places, visits, cache, vseq>>
    /\ UNCHANGED reqVars

\* record_visit up to its await.
RequestRecordVisit(i) ==
    /\ proc[i].pc = "record_visit"
    /\ \E r \in record_visit(DB, USER_ID, proc[i].place, now, autoflush, TRUE) :
          /\ r.db.vseq <= MaxVisits
          /\ proc' = [proc EXCEPT ![i].pc = "record_visit_commit",
                                  ![i].visitWrites = VisitWrites(visits, r.db.visits),
                                  ![i].placeWrites = PlaceWrites(places, r.db.places)]
          /\ cache' = r.db.cache
          /\ vseq' = r.db.vseq
    /\ UNCHANGED <<places, visits>>
    /\ UNCHANGED reqVars

RequestRecordVisitCommit(i) ==
    /\ proc[i].pc = "record_visit_commit"
    /\ visits' = CommitVisits(visits, proc[i].visitWrites)
    /\ places' = CommitPlaces(places, proc[i].placeWrites)
    /\ proc' = [proc EXCEPT ![i] = Idle]
    /\ UNCHANGED <<cache, vseq>>
    /\ UNCHANGED reqVars

NextConc ==
    \/ Advance
    \/ CreatePlace
    \/ \E i \in Requests : RequestStart(i)
    \/ \E i \in Requests : RequestCheckExit(i)
    \/ \E i \in Requests : RequestEndVisit(i)
    \/ \E i \in Requests : RequestEndVisitCommit(i)
    \/ \E i \in Requests : RequestCheckEntry(i)
    \/ \E i \in Requests : RequestRecordVisit(i)
    \/ \E i \in Requests : RequestRecordVisitCommit(i)

SpecConc == Init /\ [][NextConc]_vars

\* ------------------------------------------------------------ the places API
\* Variant: the string is handed on as it is.
ConfirmedCategory_unchecked(category) == category

\* PlaceCategory(category) if category in PlaceCategory.__members__ else
\* PlaceCategory.other
\* PlaceCategory.other; PlaceCategory(category), the lookup by value, raises
\* ValueError for a string that is no value.
ConfirmedCategory(category) ==
    IF category \in PlaceCategoryMembers
    THEN IF category \in PlaceCategory THEN category ELSE ValueError
    ELSE "other"

\* confirm_discovered_place: create_place with radius_meters = 100.0, the
\* category looked up, and the auto-detected flag.  Nothing is stored when the
\* lookup raises.
confirm_discovered_place(db, uid, lat, name, category) ==
    IF ConfirmedCategory(category) = ValueError THEN db
    ELSE create_place(db, uid, name, lat, DEFAULT_RADIUS, ConfirmedCategory(category))

\* What a client can send as radius_meters: PlaceCreate and PlaceUpdate declare
\* a float and nothing more.
RadiusInputs == {-50, 0, 100}
RadiusUpdates ==
    {[name |-> NoName, latitude |-> None, radius_meters |-> r] :
        r \in RadiusInputs \ {100}}

\* Where a point is probed, relative to the centre of a place.
ProbeOffsets == {-101, -100, -51, -50, 0, 50, 51, 100, 101}

\* POST /places: the body's radius_meters goes to create_place as it is.
CreatePlaceRequest ==
    /\ pseq + 1 \in PlaceIds
    /\ \E name \in PlaceNames, lat \in PlaceLats, radius \in RadiusInputs :
          /\ SetDB(create_place(DB, USER_ID, name, lat, radius, "other"))
          /\ ret' = pseq + 1
          /\ last' = Call("create_place", USER_ID, pseq + 1, TRUE, FALSE, 0)
    /\ UNCHANGED <<locations, now, autoflush, home_place_checked, response, proc,
                   fixes, result>>

\* PUT /places/{place_id}.
UpdatePlaceRequest ==
    /\ \E place_id \in PlaceIds, upd \in RadiusUpdates \cup Updates :
          LET r == update_place(DB, place_id, upd)
          IN  /\ SetDB(r.db)
              /\ ret' = r.ret
              /\ last' = Call("update_place", USER_ID, place_id, TRUE, FALSE, 0)
    /\ UNCHANGED <<locations, now, autoflush, home_place_checked, response, proc,
                   fixes, result>>

\* POST /places/discover/confirm.
\* (category is left at its default, "other".)
ConfirmDiscoveredPlace ==
    /\ pseq + 1 \in PlaceIds
    /\ \E name \in PlaceNames, lat \in PlaceLats :
          /\ SetDB(confirm_discovered_place(DB, USER_ID, lat, name, "other"))
          /\ ret' = pseq + 1
          /\ last' = Call("confirm_discovered_place", USER_ID, pseq + 1, TRUE, FALSE, 0)
    /\ UNCHANGED <<locations, now, autoflush, home_place_checked, response, proc,
                   fixes, result>>

\* The home place check of a batch.
EnsureHomePlaceExists ==
    /\ ~home_place_checked
    /\ \E env \in HomeEnv, fails \in BOOLEAN :
          LET db1 == ensure_home_place_exists(DB, home_place_checked, env, USER_ID, fails)
          IN  /\ fails => env = "valid"
              /\ db1.pseq = pseq \/ db1.pseq \in PlaceIds
              /\ SetDB(db1)
              /\ last' = Call("ensure_home_place_exists", USER_ID, None, TRUE, fails, 0)
    /\ home_place_checked' = TRUE
    /\ UNCHANGED <<locations, now, autoflush, response, ret, proc, fixes, result>>

\* is_at_place for a point at offset d from the centre of a stored place; result
\* holds the point, the place and the answer.
IsAtPlace ==
    /\ \E place_id \in DOMAIN places, d \in ProbeOffsets :
          LET lat == places[place_id].latitude + d
          IN  /\ result' = [raised |-> FALSE,
                            value |-> <<lat, place_id, is_at_place(lat, places[place_id])>>]
              /\ last' = Call("is_at_place", USER_ID, place_id, TRUE, FALSE, 0)
    /\ UNCHANGED <<places, visits, cache, vseq, pseq, locations, now, autoflush,
                   home_place_checked, response, ret, proc, fixes>>

NextPlaces ==
    \/ CreatePlaceRequest
    \/ UpdatePlaceRequest
    \/ ConfirmDiscoveredPlace
    \/ EnsureHomePlaceExists
    \/ IsAtPlace

SpecPlaces == Init /\ [][NextPlaces]_vars

\* ------------------------------------------------------------ place discovery
\* A run of stationary fixes of the owner is stored one by one, each 10 or 40
\* minutes after the one before, at one of a few positions: two close ones, one
\* 500 m and more away, and one inside the known place.
RunGaps == {10 * Minute, 40 * Minute}
RunLats == {0, 100, 600, 1000}
KNOWN_PLACE_LAT == 10 * DEFAULT_RADIUS
MinVisitsInputs == {3, 4}
DISCOVER_DAYS_BACK == 30

InitDiscover ==
    /\ places = create_place([places |-> <<>>, visits |-> <<>>,
                              cache |-> [u \in Users |-> None],
                              vseq |-> 0, pseq |-> 0],
                             USER_ID, "Gym", KNOWN_PLACE_LAT, DEFAULT_RADIUS, "other").places
    /\ visits = <<>>
    /\ cache = [u \in Users |-> None]
    /\ vseq = 0
    /\ pseq = 1
    /\ locations = 0
    /\ now = WEDNESDAY_9AM
    /\ autoflush = TRUE
    /\ home_place_checked = FALSE
    /\ response = "none"
    /\ ret = 1
    /\ last = Call("create_place", USER_ID, 1, TRUE, FALSE, 0)
    /\ proc = [i \in Requests |-> Idle]
    /\ fixes = <<>>
    /\ result = NoResult

\* One more LocationDB row of the run.
StoreFix ==
    /\ Len(fixes) < MaxRun
    /\ \E lat \in RunLats, gap \in RunGaps :
          LET t == IF fixes = <<>> THEN now - Day
                   ELSE fixes[Len(fixes)].timestamp + gap
          IN  /\ fixes = <<>> => gap = 10 * Minute
              /\ fixes' = Append(fixes, Fix(USER_ID, lat, t, 0))
    /\ locations' = locations + 1
    /\ last' = Call("store_fix", USER_ID, None, TRUE, FALSE, 1)
    /\ result' = NoResult
    /\ UNCHANGED <<places, visits, cache, vseq, pseq, now, autoflush,
                   home_place_checked, response, ret, proc>>

\* GET /places/discover.  result holds the suggestions, and with them the dwell
\* sessions the call went through and the min_visits it was given.
DiscoverFrequentLocations ==
    /\ fixes # <<>>
    /\ \E min_visits \in MinVisitsInputs :
          result' = [raised |-> FALSE,
                     value |-> discover_frequent_locations(
                                   fixes, places, USER_ID, min_visits, DEFAULT_RADIUS,
                                   DISCOVER_DAYS_BACK, now),
                     dwell_sessions |-> DwellSessions(
                                   StationaryFixes(fixes, USER_ID,
                                                   now - DISCOVER_DAYS_BACK * Day),
                                   places, USER_ID),
                     min_visits |-> min_visits]
    /\ last' = Call("discover_frequent_locations", USER_ID, None, TRUE, FALSE, 0)
    /\ UNCHANGED <<places, visits, cache, vseq, pseq, locations, now, autoflush,
                   home_place_checked, response, ret, proc, fixes>>

NextDiscover ==
    \/ StoreFix
    \/ DiscoverFrequentLocations

SpecDiscover == InitDiscover /\ [][NextDiscover]_vars

\* ---------------------------------------------------------- dwell segmentation
\* Fixes exactly 30 minutes and a second more than 30 minutes apart, at
\* positions that put a fix exactly 500 m or more than 500 m from the mean of
\* the points before it, and inside the known place.
SegmentGaps == {SESSION_GAP_MINUTES * Minute, SESSION_GAP_MINUTES * Minute + 1}
SegmentLats == {0, 100, 550, 600, KNOWN_PLACE_LAT}

SegmentStoreFix ==
    /\ Len(fixes) < MaxSegment
    /\ \E lat \in SegmentLats, gap \in SegmentGaps :
          LET t == IF fixes = <<>> THEN now - Day
                   ELSE fixes[Len(fixes)].timestamp + gap
          IN  /\ fixes = <<>> => gap = SESSION_GAP_MINUTES * Minute
              /\ fixes' = Append(fixes, Fix(USER_ID, lat, t, 0))
    /\ locations' = locations + 1
    /\ last' = Call("store_fix", USER_ID, None, TRUE, FALSE, 1)
    /\ result' = NoResult
    /\ UNCHANGED <<places, visits, cache, vseq, pseq, now, autoflush,
                   home_place_checked, response, ret, proc>>

NextSegment ==
    \/ SegmentStoreFix
    \/ DiscoverFrequentLocations

SpecSegment == InitDiscover /\ [][NextSegment]_vars

\* ------------------------------------------------------------------ clustering
\* Fixes 100 m apart in a row, in one session (10 minutes apart) or in sessions
\* of their own (40 minutes apart).
ClusterLats == {0, DEFAULT_RADIUS, 2 * DEFAULT_RADIUS, 3 * DEFAULT_RADIUS}
ClusterMinVisits == {2, 3}

ClusterStoreFix ==
    /\ Len(fixes) < MaxCluster
    /\ \E lat \in ClusterLats, gap \in RunGaps :
          LET t == IF fixes = <<>> THEN now - Day
                   ELSE fixes[Len(fixes)].timestamp + gap
          IN  /\ fixes = <<>> => gap = 10 * Minute
              /\ fixes' = Append(fixes, Fix(USER_ID, lat, t, 0))
    /\ locations' = locations + 1
    /\ last' = Call("store_fix", USER_ID, None, TRUE, FALSE, 1)
    /\ result' = NoResult
    /\ UNCHANGED <<places, visits, cache, vseq, pseq, now, autoflush,
                   home_place_checked, response, ret, proc>>

\* discover_frequent_locations; result holds the suggestions and, with them,
\* the dwell sessions and the clusters (kept or not) the call went through.
DiscoverWithClusters ==
    /\ fixes # <<>>
    /\ \E min_visits \in ClusterMinVisits :
          LET dwell_sessions ==
                  DwellSessions(StationaryFixes(fixes, USER_ID,
                                                now - DISCOVER_DAYS_BACK * Day),
                                places, USER_ID)
          IN  result' = [raised |-> FALSE,
                         value |-> discover_frequent_locations(
                                       fixes, places, USER_ID, min_visits,
                                       DEFAULT_RADIUS, DISCOVER_DAYS_BACK, now),
                         dwell_sessions |-> dwell_sessions,
                         clusters |-> ClustersOf(dwell_sessions, DEFAULT_RADIUS,
                                                 min_visits),
                         min_visits |-> min_visits]
    /\ last' = Call("discover_frequent_locations", USER_ID, None, TRUE, FALSE, 0)
    /\ UNCHANGED <<places, visits, cache, vseq, pseq, locations, now, autoflush,
                   home_place_checked, response, ret, proc, fixes>>

NextCluster ==
    \/ ClusterStoreFix
    \/ DiscoverWithClusters

SpecCluster == InitDiscover /\ [][NextCluster]_vars

\* ------------------------------------------------------- the category heuristic
CategoryHours == {2, 5, 6, 8, 10, 11, 12, 14, 15, 17, 19, 21, 22}

\* _suggest_category_from_times for the start hours of one or two sessions.
SuggestCategory ==
    /\ \E hours \in {<<h>> : h \in CategoryHours}
                    \cup {<<h, g>> : h \in CategoryHours, g \in CategoryHours} :
          result' = [raised |-> FALSE,
                     value |-> <<hours, _suggest_category_from_times(hours)>>]
    /\ last' = Call("_suggest_category_from_times", USER_ID, None, TRUE, FALSE, 0)
    /\ UNCHANGED <<places, visits, cache, vseq, pseq, locations, now, autoflush,
                   home_place_checked, response, ret, proc, fixes>>

NextCategory == SuggestCategory

SpecCategory == InitDiscover /\ [][NextCategory]_vars

\* ------------------------------------------------------------ visit histories
\* Two places of the owner are visited on a Wednesday at 09:00 and 11:00, four
\* weeks later at 09:00 and 10:20, and on the Thursday after at 09:00; the
\* routine queries are asked in between, over windows of whole weeks and of 1,
\* 10 and 20 days.
HistoryTimes ==
    {WEDNESDAY_9AM, WEDNESDAY_9AM + 2 * Hour,
     WEDNESDAY_9AM + 4 * Week,
     WEDNESDAY_9AM + 4 * Week + Hour + 20 * Minute,
     WEDNESDAY_9AM + 4 * Week + Day}
DaysBackInputs == {1, 7, 10, 20, 28}
CAFE_LAT == 2 * DEFAULT_RADIUS

InitHistory ==
    /\ places = create_place(
                    create_place([places |-> <<>>, visits |-> <<>>,
                                  cache |-> [u \in Users |-> None],
                                  vseq |-> 0, pseq |-> 0],
                                 USER_ID, "Gym", 0, DEFAULT_RADIUS, "other"),
                    USER_ID, "Cafe", CAFE_LAT, DEFAULT_RADIUS, "other").places
    /\ visits = <<>>
    /\ cache = [u \in Users |-> None]
    /\ vseq = 0
    /\ pseq = 2
    /\ locations = 0
    /\ now = WEDNESDAY_9AM
    /\ autoflush = TRUE
    /\ home_place_checked = FALSE
    /\ response = "none"
    /\ ret = 2
    /\ last = Call("create_place", USER_ID, 2, TRUE, FALSE, 0)
    /\ proc = [i \in Requests |-> Idle]
    /\ fixes = <<>>
    /\ result = NoResult

\* A step of the history forgets the answer to the last query.
HistoryAdvance ==
    /\ \E t \in HistoryTimes : t > now /\ now' = t
    /\ last' = Call("advance", USER_ID, None, TRUE, FALSE, 0)
    /\ result' = NoResult
    /\ UNCHANGED <<places, visits, cache, vseq, pseq, locations, autoflush,
                   home_place_checked, response, ret, proc, fixes>>

HistoryRecordVisit ==
    /\ \E place_id \in DOMAIN places, cacheOk \in {TRUE} :
          \E r \in record_visit(DB, USER_ID, place_id, now, autoflush, cacheOk) :
              /\ r.db.vseq <= MaxHistory
              /\ SetDB(r.db)
              /\ ret' = r.ret
              /\ last' = Call("record_visit", USER_ID, place_id, cacheOk, FALSE, 0)
    /\ result' = NoResult
    /\ UNCHANGED <<locations, now, autoflush, home_place_checked, response, proc,
                   fixes>>

HistoryEndVisit ==
    /\ \E place_id \in DOMAIN places, cacheOk \in BOOLEAN :
          \E r \in end_visit(DB, USER_ID, place_id, now, cacheOk) :
              /\ r.ret # None
              /\ SetDB(r.db)
              /\ ret' = r.ret
              /\ last' = Call("end_visit", USER_ID, place_id, cacheOk, FALSE, 0)
    /\ result' = NoResult
    /\ UNCHANGED <<locations, now, autoflush, home_place_checked, response, proc,
                   fixes>>

\* GET /places/routines, and get_routines called with a shorter window.
GetRoutines ==
    /\ \E days_back \in DaysBackInputs :
          \E order \in Orders(RoutineVisits(visits, places, USER_ID, days_back, now)) :
              LET r == get_routines(visits, places, USER_ID, days_back, now, order)
              IN  result' = [raised |-> r.raised, value |-> r.value,
                             days_back |-> days_back]
    /\ last' = Call("get_routines", USER_ID, None, TRUE, result'.raised, 0)
    /\ UNCHANGED <<places, visits, cache, vseq, pseq, locations, now, autoflush,
                   home_place_checked, response, ret, proc, fixes>>

\* _get_typical_place_for_time(uid, utcnow()), as get_place_context calls it.
GetTypicalPlaceForTime ==
    /\ \E order \in Orders(TypicalVisits(visits, USER_ID, now)) :
          result' = [raised |-> FALSE,
                     value |-> _get_typical_place_for_time(visits, places, USER_ID,
                                                           now, order),
                     order |-> order]
    /\ last' = Call("_get_typical_place_for_time", USER_ID, None, TRUE, FALSE, 0)
    /\ UNCHANGED <<places, visits, cache, vseq, pseq, locations, now, autoflush,
                   home_place_checked, response, ret, proc, fixes>>

\* GET /places/routines/deviation.
CheckRoutineDeviation ==
    /\ \E order \in Orders(TypicalVisits(visits, USER_ID, now)), cacheOk \in BOOLEAN :
          /\ \E d \in check_routine_deviation(DB, USER_ID, now, order, cacheOk) :
                result' = [raised |-> FALSE, value |-> d]
          /\ last' = Call("check_routine_deviation", USER_ID, None, cacheOk, FALSE, 0)
    /\ UNCHANGED <<places, visits, cache, vseq, pseq, locations, now, autoflush,
                   home_place_checked, response, ret, proc, fixes>>

NextHistory ==
    \/ HistoryAdvance
    \/ HistoryRecordVisit
    \/ HistoryEndVisit
    \/ GetRoutines
    \/ GetTypicalPlaceForTime
    \/ CheckRoutineDeviation

SpecHistory == InitHistory /\ [][NextHistory]_vars

\* ------------------------------------------------------------------ two owners
\* The service functions take the owner as an argument: here they are called for
\* two owners, each with one place, with every place id as argument.
InitOwners ==
    /\ places = create_place(
                    create_place([places |-> <<>>, visits |-> <<>>,
                                  cache |-> [u \in Users |-> None],
                                  vseq |-> 0, pseq |-> 0],
                                 USER_ID, "Gym", 0, DEFAULT_RADIUS, "other"),
                    "guest", "Office", CAFE_LAT, DEFAULT_RADIUS, "other").places
    /\ visits = <<>>
    /\ cache = [u \in Users |-> None]
    /\ vseq = 0
    /\ pseq = 2
    /\ locations = 0
    /\ now = WEDNESDAY_9AM
    /\ autoflush \in BOOLEAN
    /\ home_place_checked = FALSE
    /\ response = "none"
    /\ ret = 2
    /\ last = Call("create_place", "guest", 2, TRUE, FALSE, 0)
    /\ proc = [i \in Requests |-> Idle]
    /\ fixes = <<>>
    /\ result = NoResult

OwnerRecordVisit ==
    /\ \E uid \in Users, place_id \in DOMAIN places :
          \E r \in record_visit(DB, uid, place_id, now, autoflush, TRUE) :
              /\ r.db.vseq <= MaxVisits
              /\ SetDB(r.db)
              /\ ret' = r.ret
              /\ last' = Call("record_visit", uid, place_id, TRUE, FALSE, 0)
    /\ UNCHANGED <<locations, now, autoflush, home_place_checked, response, proc,
                   fixes, result>>

OwnerEndVisit ==
    /\ \E uid \in Users, place_id \in DOMAIN places :
          \E r \in end_visit(DB, uid, place_id, now, TRUE) :
              /\ SetDB(r.db)
              /\ ret' = r.ret
              /\ last' = Call("end_visit", uid, place_id, TRUE, FALSE, 0)
    /\ UNCHANGED <<locations, now, autoflush, home_place_checked, response, proc,
                   fixes, result>>

OwnerProcessPlaceDetection ==
    /\ \E uid \in Users, lat \in FixLats :
          \E o \in process_place_detection(DB, uid, lat, now, autoflush,
                                           NoFailure, TRUE) :
              /\ o.db.vseq <= MaxVisits
              /\ SetDB(o.db)
              /\ last' = Call("process_place_detection", uid, None, TRUE, o.raised, 0)
    /\ UNCHANGED <<locations, now, autoflush, home_place_checked, response, ret,
                   proc, fixes, result>>

\* ensure_home_place_exists(place_service, user_id) with HOME_LOCATION set.
OwnerEnsureHomePlaceExists ==
    /\ \E uid \in Users :
          /\ SetDB(ensure_home_place_exists(DB, home_place_checked, "valid", uid, FALSE))
          /\ last' = Call("ensure_home_place_exists", uid, None, TRUE, FALSE, 0)
    /\ home_place_checked' = TRUE
    /\ UNCHANGED <<locations, now, autoflush, response, ret, proc, fixes, result>>

NextOwners ==
    \/ Advance
    \/ OwnerRecordVisit
    \/ OwnerEndVisit
    \/ OwnerProcessPlaceDetection
    \/ OwnerEnsureHomePlaceExists

SpecOwners == InitOwners /\ [][NextOwners]_vars

\* ------------------------------------------------------- three weeks of fixes
\* An owner without places stays at one location for three weeks; every day
\* FixesPerDay stationary fixes are stored, the first at a fixed time of day
\* and the next ones at a fixed spacing: 10 minutes, exactly 30 minutes, or 5
\* hours.  Discovery is asked along the way and up to 30 days after the first day.
THREE_WEEKS == 3 * 7
StayLats == {-73, 40}
DayPatterns ==
    {[start |-> 9 * Hour, spacing |-> 10 * Minute, speed |-> 1],
     [start |-> 8 * Hour, spacing |-> 30 * Minute, speed |-> 0],
     [start |-> 0, spacing |-> 5 * Hour, speed |-> 0]}
FIRST_DAY == 2 * Day

InitEndToEnd ==
    /\ places = <<>>
    /\ visits = <<>>
    /\ cache = [u \in Users |-> None]
    /\ vseq = 0
    /\ pseq = 0
    /\ locations = 0
    /\ now = FIRST_DAY
    /\ autoflush = TRUE
    /\ home_place_checked = FALSE
    /\ response = "none"
    /\ ret = None
    /\ last = Call("init", USER_ID, None, TRUE, FALSE, 0)
    /\ proc = [i \in Requests |-> Idle]
    /\ fixes = <<>>
    /\ result = NoResult

\* The fixes of one more day, in the pattern of the days before.
StoreDay ==
    /\ Len(fixes) < THREE_WEEKS * FixesPerDay
    /\ \E pattern \in DayPatterns, lat \in StayLats :
          /\ fixes # <<>> =>
                /\ fixes[1].timestamp = FIRST_DAY + pattern.start
                /\ fixes[2].timestamp - fixes[1].timestamp = pattern.spacing
                /\ fixes[1].latitude = lat
          /\ fixes' = fixes \o
                [i \in 1..FixesPerDay |->
                    Fix(USER_ID, lat, now + pattern.start + (i - 1) * pattern.spacing,
                        pattern.speed)]
    /\ locations' = locations + FixesPerDay
    /\ now' = now + Day
    /\ last' = Call("store_fix", USER_ID, None, TRUE, FALSE, FixesPerDay)
    /\ result' = NoResult
    /\ UNCHANGED <<places, visits, cache, vseq, pseq, autoflush,
                   home_place_checked, response, ret, proc>>

\* After the three weeks time passes, up to 30 days after the first day.
WaitForLookback ==
    /\ Len(fixes) = THREE_WEEKS * FixesPerDay
    /\ now < FIRST_DAY + DISCOVER_DAYS_BACK * Day
    /\ now' = now + Day
    /\ last' = Call("advance", USER_ID, None, TRUE, FALSE, 0)
    /\ result' = NoResult
    /\ UNCHANGED <<places, visits, cache, vseq, pseq, locations, autoflush,
                   home_place_checked, response, ret, proc, fixes>>

NextEndToEnd ==
    \/ StoreDay
    \/ WaitForLookback
    \/ DiscoverFrequentLocations

SpecEndToEnd == InitEndToEnd /\ [][NextEndToEnd]_vars

\* ------------------------------------------------------------ dwell minutes
\* Visits of less than a minute, of a minute and a second, of two hours and of
\* more than a day.
DwellTimes ==
    {WEDNESDAY_9AM + 59, WEDNESDAY_9AM + 2 * Minute, WEDNESDAY_9AM + 2 * Hour,
     WEDNESDAY_9AM + Day + 90}

DwellAdvance ==
    /\ \E t \in DwellTimes : t > now /\ now' = t
    /\ last' = Call("advance", USER_ID, None, TRUE, FALSE, 0)
    /\ result' = NoResult
    /\ UNCHANGED <<places, visits, cache, vseq, pseq, locations, autoflush,
                   home_place_checked, response, ret, proc, fixes>>

NextDwell ==
    \/ DwellAdvance
    \/ HistoryRecordVisit
    \/ HistoryEndVisit

SpecDwell == InitHistory /\ [][NextDwell]_vars

\* ------------------------------------------------------- the flag of a visit
\* Times of day around midnight and around the two hour window, on one weekday
\* of three weeks and on the day after.
FlagTimes ==
    {2 * Day + 10 * Minute, 2 * Day + 40 * Minute, 2 * Day + 2 * Hour + 59 * Minute,
     2 * Day + 3 * Hour, 2 * Day + 23 * Hour + 30 * Minute, 3 * Day + 20 * Minute,
     2 * Week + 2 * Day + 10 * Minute, 2 * Week + 2 * Day + 40 * Minute}

InitFlag ==
    /\ places = create_place(
                    create_place([places |-> <<>>, visits |-> <<>>,
                                  cache |-> [u \in Users |-> None],
                                  vseq |-> 0, pseq |-> 0],
                                 USER_ID, "Gym", 0, DEFAULT_RADIUS, "other"),
                    USER_ID, "Cafe", CAFE_LAT, DEFAULT_RADIUS, "other").places
    /\ visits = <<>>
    /\ cache = [u \in Users |-> None]
    /\ vseq = 0
    /\ pseq = 2
    /\ locations = 0
    /\ now = 2 * Day + 10 * Minute
    /\ autoflush = TRUE
    /\ home_place_checked = FALSE
    /\ response = "none"
    /\ ret = 2
    /\ last = Call("create_place", USER_ID, 2, TRUE, FALSE, 0)
    /\ proc = [i \in Requests |-> Idle]
    /\ fixes = <<>>
    /\ result = NoResult

FlagAdvance ==
    /\ \E t \in FlagTimes : t > now /\ now' = t
    /\ last' = Call("advance", USER_ID, None, TRUE, FALSE, 0)
    /\ UNCHANGED <<places, visits, cache, vseq, pseq, locations, autoflush,
                   home_place_checked, response, ret, proc, fixes, result>>

\* record_visit, for either owner at either place.
FlagRecordVisit ==
    /\ vseq < MaxFlagVisits
    /\ \E uid \in Users, place_id \in DOMAIN places :
          \E r \in record_visit(DB, uid, place_id, now, autoflush, TRUE) :
              /\ SetDB(r.db)
              /\ ret' = r.ret
              /\ last' = Call("record_visit", uid, place_id, TRUE, FALSE, 0)
    /\ UNCHANGED <<locations, now, autoflush, home_place_checked, response, proc,
                   fixes, result>>

NextFlag ==
    \/ FlagAdvance
    \/ FlagRecordVisit

SpecFlag == InitFlag /\ [][NextFlag]_vars

\* ---------------------------------------------------- entry and exit checks
\* The owner has two overlapping places, the other owner one place at the
\* centre of the first.
CAFE_OVERLAP_LAT == DEFAULT_RADIUS \div 2
CheckLats == {-60, 0, 120, 150, 151}

InitChecks ==
    /\ places = create_place(
                    create_place(
                      create_place([places |-> <<>>, visits |-> <<>>,
                                    cache |-> [u \in Users |-> None],
                                    vseq |-> 0, pseq |-> 0],
                                   USER_ID, "Gym", 0, DEFAULT_RADIUS, "other"),
                      USER_ID, "Cafe", CAFE_OVERLAP_LAT, DEFAULT_RADIUS, "other"),
                    "guest", "Office", 0, DEFAULT_RADIUS, "other").places
    /\ visits = <<>>
    /\ cache = [u \in Users |-> None]
    /\ vseq = 0
    /\ pseq = 3
    /\ locations = 0
    /\ now = WEDNESDAY_9AM
    /\ autoflush = TRUE
    /\ home_place_checked = FALSE
    /\ response = "none"
    /\ ret = 3
    /\ last = Call("create_place", "guest", 3, TRUE, FALSE, 0)
    /\ proc = [i \in Requests |-> Idle]
    /\ fixes = <<>>
    /\ result = NoResult

\* check_place_entry; result holds the position, the order in which the query
\* returned the owner's places, and the answer.
CheckPlaceEntry ==
    /\ \E uid \in Users, lat \in CheckLats :
          \E order \in Orders(PlacesOf(places, uid)) :
              /\ result' = [raised |-> FALSE,
                            value |-> <<EntryInOrder(DB, uid, lat, order)>>,
                            lat |-> lat, order |-> order]
              /\ last' = Call("check_place_entry", uid, None, TRUE, FALSE, 0)
    /\ UNCHANGED <<places, visits, cache, vseq, pseq, locations, now, autoflush,
                   home_place_checked, response, ret, proc, fixes>>

\* check_place_exit; result holds the position and the answer.
CheckPlaceExit ==
    /\ \E uid \in Users, lat \in CheckLats :
          \E answer \in check_place_exit(DB, uid, lat) :
              /\ result' = [raised |-> FALSE, value |-> <<answer>>,
                            lat |-> lat, order |-> <<>>]
              /\ last' = Call("check_place_exit", uid, None, TRUE, FALSE, 0)
    /\ UNCHANGED <<places, visits, cache, vseq, pseq, locations, now, autoflush,
                   home_place_checked, response, ret, proc, fixes>>

NextChecks ==
    \/ OwnerRecordVisit
    \/ OwnerEndVisit
    \/ CheckPlaceEntry
    \/ CheckPlaceExit

SpecChecks == InitChecks /\ [][NextChecks]_vars

\* ------------------------------------------------------- the order of a tick
\* Positions inside the first place, on the common edge of the two places,
\* inside the second place only, and outside both.
TickLats == {0, DEFAULT_RADIUS, CAFE_LAT + DEFAULT_RADIUS \div 2, 4 * DEFAULT_RADIUS}

\* One tick; result holds the position and the calls of the tick in their order.
TickDetection ==
    /\ \E lat \in TickLats, failAt \in Steps \cup {NoFailure} :
          \E o \in process_place_detection(DB, USER_ID, lat, now, autoflush,
                                           failAt, TRUE) :
              /\ o.db.vseq <= MaxHistory
              /\ SetDB(o.db)
              /\ result' = [raised |-> o.raised, value |-> o.calls, lat |-> lat]
              /\ last' = Call("process_place_detection", USER_ID, None, TRUE,
                              o.raised, 0)
    /\ UNCHANGED <<locations, now, autoflush, home_place_checked, response, ret,
                   proc, fixes>>

NextTick ==
    \/ DwellAdvance
    \/ TickDetection

SpecTick == InitHistory /\ [][NextTick]_vars

\* ------------------------------------------------------- the top suggestions
\* A long run of stays, 40 minutes apart, each at a spot of its own 200 m from
\* the next one or back at the first spot; early in the run a fix at the first
\* spot can also come 10 minutes after one there, in the same stay.  The fifth
\* spot lies inside the known place.
TopMinVisits == {1, 2}

TopStoreFix ==
    /\ Len(fixes) < MaxTop
    /\ \E lat \in {0, (Len(fixes) + 1) * 2 * DEFAULT_RADIUS},
          gap \in RunGaps :
          LET t == IF fixes = <<>> THEN now - Day
                   ELSE fixes[Len(fixes)].timestamp + gap
          IN  /\ gap = 10 * Minute =>
                    /\ fixes # <<>>
                    /\ Len(fixes) <= MaxFixes
                    /\ lat = 0
                    /\ fixes[Len(fixes)].latitude = 0
              /\ fixes' = Append(fixes, Fix(USER_ID, lat, t, 0))
    /\ locations' = locations + 1
    /\ last' = Call("store_fix", USER_ID, None, TRUE, FALSE, 1)
    /\ result' = NoResult
    /\ UNCHANGED <<places, visits, cache, vseq, pseq, now, autoflush,
                   home_place_checked, response, ret, proc>>

\* discover_frequent_locations with a min_visits the route accepts (ge=1).
DiscoverTop ==
    /\ fixes # <<>>
    /\ \E min_visits \in TopMinVisits :
          LET dwell_sessions ==
                  DwellSessions(StationaryFixes(fixes, USER_ID,
                                                now - DISCOVER_DAYS_BACK * Day),
                                places, USER_ID)
          IN  result' = [raised |-> FALSE,
                         value |-> discover_frequent_locations(
                                       fixes, places, USER_ID, min_visits,
                                       DEFAULT_RADIUS, DISCOVER_DAYS_BACK, now),
                         dwell_sessions |-> dwell_sessions,
                         clusters |-> ClustersOf(dwell_sessions, DEFAULT_RADIUS,
                                                 min_visits),
                         min_visits |-> min_visits]
    /\ last' = Call("discover_frequent_locations", USER_ID, None, TRUE, FALSE, 0)
    /\ UNCHANGED <<places, visits, cache, vseq, pseq, locations, now, autoflush,
                   home_place_checked, response, ret, proc, fixes>>

NextTop ==
    \/ TopStoreFix
    \/ DiscoverTop

SpecTop == InitDiscover /\ [][NextTop]_vars

\* ------------------------------------------------- confirming with a category
\* The strings a caller can hand over as category: the ten values, and strings
\* that are none of them (another case, empty, unknown).
CategoryInputs == PlaceCategory \cup {"Gym", "", "cafe"}

\* confirm_discovered_place with a category string; result holds the string and
\* whether the call raised.
ConfirmDiscoveredPlaceAs ==
    /\ pseq + 1 \in PlaceIds
    /\ \E lat \in PlaceLats, category \in CategoryInputs :
          LET db1 == confirm_discovered_place(DB, USER_ID, lat, "Spot", category)
          IN  /\ SetDB(db1)
              /\ ret' = IF db1.pseq = pseq THEN Raised ELSE db1.pseq
              /\ result' = [raised |-> db1.pseq = pseq, value |-> <<category>>]
    /\ last' = Call("confirm_discovered_place", USER_ID, pseq + 1, TRUE, FALSE, 0)
    /\ UNCHANGED <<locations, now, autoflush, home_place_checked, response, proc,
                   fixes>>

NextConfirm == ConfirmDiscoveredPlaceAs

SpecConfirm == InitEndToEnd /\ [][NextConfirm]_vars

\* ===================================================================== claims
ServiceOps == {"record_visit", "end_visit", "get_current_place"}

\* C1: for every owner, after any sequence of record_visit, end_visit and
\* detection ticks run one after the other, at most one Visit of that owner
\* has exited_at = null.
C1_AtMostOneOpenVisit ==
    \A u \in Users : Cardinality(OpenVisits(visits, u)) <= 1

\* A tick in the overlap of two geofences has closed the visit to one place and
\* opened the visit to the other.
C1_Witness ==
    /\ last.op = "process_place_detection"
    /\ \E v, w \in DOMAIN visits :
          /\ visits[v].exited_at # None
          /\ visits[w].exited_at = None
          /\ visits[v].place_id # visits[w].place_id
          /\ visits[v].uid = visits[w].uid
          /\ \E lat \in FixLats : \A p \in {visits[v].place_id, visits[w].place_id} :
                p \in DOMAIN places /\ is_at_place(lat, places[p])

C4_EndVisitNoOpenIsNoop ==
    [][(/\ last'.op = "end_visit"
        /\ OpenVisitsAt(visits, last'.uid, last'.place_id) = {})
       => (/\ ret' = None
           /\ visits' = visits
           /\ places' = places
           /\ cache' = cache)]_vars

\* end_visit was called for a place the owner is not at, while the owner has an
\* open visit elsewhere and a cache entry.
C4_Witness ==
    /\ last.op = "end_visit"
    /\ ret = None
    /\ OpenVisits(visits, last.uid) # {}
    /\ cache[last.uid] # None

\* C7: a failing cache never fails record_visit, end_visit or get_current_place:
\* each returns what it returns with a working cache and leaves the same Visit
\* and Place rows, and get_current_place on a miss or a failed read gives the
\* place of the owner's open visit from the store.
C7_CacheFailuresAreSilent ==
    [][/\ (last'.op \in ServiceOps => ret' # Raised)
       /\ (last'.op = "record_visit" =>
              \E r \in record_visit(DB, last'.uid, last'.place_id, now, autoflush, TRUE) :
                  /\ ret' = r.ret
                  /\ visits' = r.db.visits
                  /\ places' = r.db.places)
       /\ (last'.op = "end_visit" =>
              \E r \in end_visit(DB, last'.uid, last'.place_id, now, TRUE) :
                  /\ ret' = r.ret
                  /\ visits' = r.db.visits
                  /\ places' = r.db.places)
       /\ ((/\ last'.op = "get_current_place"
            /\ (~last'.cacheOk \/ cache[last'.uid] = None))
           => IF OpenVisits(visits, last'.uid) = {} THEN ret' = None
              ELSE \E v \in OpenVisits(visits, last'.uid) : ret' = visits[v].place_id)
      ]_vars

\* record_visit created a visit although its cache write failed: the key still
\* names no place or another one.
C7_Witness ==
    /\ last.op = "record_visit"
    /\ ~last.cacheOk
    /\ ret \in DOMAIN visits
    /\ visits[ret].exited_at = None
    /\ cache[last.uid] # last.place_id

\* C8: record_visit with a place id that does not exist returns none and does
\* nothing: no Visit created, no open Visit closed, no counter changed, no
\* cache write.
C8_RecordVisitUnknownPlaceIsNoop ==
    [][(/\ last'.op = "record_visit"
        /\ last'.place_id \notin DOMAIN places)
       => (/\ ret' = None
           /\ visits' = visits
           /\ places' = places
           /\ cache' = cache
           /\ vseq' = vseq)]_vars

\* record_visit was called for a missing place while the owner had an open visit.
C8_Witness ==
    /\ last.op = "record_visit"
    /\ last.place_id \notin DOMAIN places
    /\ ret = None
    /\ OpenVisits(visits, last.uid) # {}

\* C9: a closed Visit is never changed again, and entered_at, place, day_of_week
\* and is_routine of a Visit keep their values from creation on.
C9_ClosedVisitsAreFrozen ==
    [][\A v \in (DOMAIN visits) \cap (DOMAIN visits') :
          /\ visits'[v].uid = visits[v].uid
          /\ visits'[v].place_id = visits[v].place_id
          /\ visits'[v].entered_at = visits[v].entered_at
          /\ visits'[v].day_of_week = visits[v].day_of_week
          /\ visits'[v].is_routine = visits[v].is_routine
          /\ (visits[v].exited_at # None => visits'[v] = visits[v])]_vars

\* A visit was closed earlier, and a later record_visit opened another one.
C9_Witness ==
    /\ last.op = "record_visit"
    /\ ret \in DOMAIN visits
    /\ \E v \in DOMAIN visits :
          /\ visits[v].exited_at # None
          /\ visits[v].exited_at < visits[ret].entered_at
          /\ visits[v].uid = visits[ret].uid

\* C10: visit_count and total_dwell_time_minutes of a place never decrease while
\* the place exists.
C10_CountersNeverDecrease ==
    [][\A p \in (DOMAIN places) \cap (DOMAIN places') :
          /\ places'[p].visit_count >= places[p].visit_count
          /\ places'[p].total_dwell_time_minutes
                >= places[p].total_dwell_time_minutes]_vars

\* A place with two visits and minutes of dwell has been updated.
C10_Witness ==
    /\ last.op = "update_place"
    /\ ret \in DOMAIN places
    /\ places[ret].visit_count >= 2
    /\ places[ret].total_dwell_time_minutes > 0

\* C3: two batches of one owner handled concurrently never both find no open
\* visit and each create one: no reachable state has two open Visits of the owner.
C3_ConcurrentBatchesOneOpenVisit ==
    \A v, w \in DOMAIN visits :
        (/\ visits[v].uid = visits[w].uid
         /\ visits[v].exited_at = None
         /\ visits[w].exited_at = None) => v = w

\* C5: after visits on a Wednesday at 09:00 and on the next two Wednesdays within
\* 08:30-10:30, a visit created on the fourth Wednesday within 08:30-10:30 has
\* is_routine = true and one created at 14:00 that day has is_routine = false.
C5_FourthWednesdayIsRoutine ==
    /\ (4 \in DOMAIN visits => visits[4].is_routine)
    /\ (5 \in DOMAIN visits => ~visits[5].is_routine)

\* C6: whatever raises during place detection, receive_overland_data answers
\* "ok" and the fixes of the batch stay stored.
C6_DetectionNeverFailsIngestion ==
    [][last'.op = "receive_overland_data" =>
          /\ response' = "ok"
          /\ locations' = locations + last'.stored]_vars

\* A batch was stored and answered "ok" although its tick raised after the exit
\* had been handled: the visit is closed and no new one was opened.
C6_Witness ==
    /\ last.op = "receive_overland_data"
    /\ last.raised
    /\ last.stored = 1
    /\ locations >= 1
    /\ response = "ok"
    /\ DOMAIN visits # {}
    /\ OpenVisits(visits, USER_ID) = {}


\* C11: every stored Place has radius_meters > 0, whichever of create_place,
\* update_place, confirm_discovered_place or the home place check wrote it.
C11_RadiusPositive ==
    \A p \in DOMAIN places : places[p].radius_meters > 0

\* C12: is_at_place(point, place) is true iff the distance from the point to the
\* centre of the place is at most radius_meters: true at exactly the radius,
\* false one metre beyond it.
C12_HardEdgeAtRadius ==
    last.op = "is_at_place" =>
        LET lat == result.value[1]
            place == places[result.value[2]]
            inside == result.value[3]
            far == IF lat >= place.latitude THEN lat - place.latitude
                   ELSE place.latitude - lat
        IN  /\ far = place.radius_meters => inside
            /\ far = place.radius_meters + 1 => ~inside
            /\ inside <=> far <= place.radius_meters

\* A point exactly radius_meters away from the centre was found inside.
C12_Witness ==
    /\ last.op = "is_at_place"
    /\ places[result.value[2]].radius_meters > 0
    /\ Abs(result.value[1] - places[result.value[2]].latitude)
          = places[result.value[2]].radius_meters
    /\ result.value[3]


\* The fixes of the run all lie within 500 m of each other and outside the known
\* place, and the gaps between them are the given ones.
RunWithGaps(gaps) ==
    /\ Len(fixes) = Len(gaps) + 1
    /\ \A k \in DOMAIN fixes :
          /\ \A p \in DOMAIN places :
                Abs(fixes[k].latitude - places[p].latitude) > places[p].radius_meters
          /\ \A j \in DOMAIN fixes : Abs(fixes[k].latitude - fixes[j].latitude) <= 500
    /\ \A k \in DOMAIN gaps : fixes[k + 1].timestamp - fixes[k].timestamp = gaps[k]

\* C13: 5 fixes within 500 m of each other, 10 minutes apart, none inside a known
\* place, make exactly one dwell session holding all 5; with one gap widened to
\* 40 minutes they make exactly two sessions, split at that gap.
C13_RunOfFiveFixes ==
    last.op = "discover_frequent_locations" =>
        /\ RunWithGaps([k \in 1..4 |-> 10 * Minute]) =>
              /\ Len(result.dwell_sessions) = 1
              /\ Len(result.dwell_sessions[1].points) = 5
        /\ \A wide \in 1..4 :
              RunWithGaps([k \in 1..4 |-> IF k = wide THEN 40 * Minute ELSE 10 * Minute]) =>
                  /\ Len(result.dwell_sessions) = 2
                  /\ Len(result.dwell_sessions[1].points) = wide
                  /\ Len(result.dwell_sessions[2].points) = 5 - wide
                  /\ result.dwell_sessions[1].end_time = fixes[wide].timestamp
                  /\ result.dwell_sessions[2].start_time = fixes[wide + 1].timestamp

\* Five fixes at different positions with a 40 minute gap after the second one
\* were segmented into two sessions.
C13_Witness ==
    /\ last.op = "discover_frequent_locations"
    /\ RunWithGaps(<<10 * Minute, 40 * Minute, 10 * Minute, 10 * Minute>>)
    /\ \E k, j \in DOMAIN fixes : fixes[k].latitude # fixes[j].latitude
    /\ Len(result.dwell_sessions) = 2

\* The centroids of all dwell sessions are pairwise within 100 m.
CentroidsPairwiseWithin100(sessions) ==
    \A a, b \in DOMAIN sessions :
        LET sa == SumSeq(sessions[a].points)
            na == Len(sessions[a].points)
            sb == SumSeq(sessions[b].points)
            nb == Len(sessions[b].points)
        IN  /\ sa * nb - sb * na <= 100 * na * nb
            /\ sb * na - sa * nb <= 100 * na * nb

\* C14: 3 dwell sessions with centroids pairwise within 100 m, cluster radius
\* 100: min_visits = 3 gives exactly one cluster with visit_count 3, in whatever
\* order the sessions come; min_visits = 4 gives none.
C14_ThreeSessionsOneCluster ==
    (/\ last.op = "discover_frequent_locations"
     /\ Len(result.dwell_sessions) = 3
     /\ CentroidsPairwiseWithin100(result.dwell_sessions))
    => /\ result.min_visits = 3 =>
             (Len(result.value) = 1 /\ result.value[1].visit_count = 3)
       /\ result.min_visits = 4 => result.value = <<>>

\* Three sessions at centroids 100, 0 and 50 (the seed is not the middle one)
\* were clustered into one suggestion.
C14_Witness ==
    /\ last.op = "discover_frequent_locations"
    /\ Len(result.dwell_sessions) = 3
    /\ result.dwell_sessions[1].points = <<100>>
    /\ result.dwell_sessions[2].points = <<0>>
    /\ result.dwell_sessions[3].points = <<0, 100>>
    /\ result.min_visits = 3
    /\ Len(result.value) = 1

\* The buckets of the heuristic in the order they are checked.
CategoryBuckets ==
    <<[lo |-> 6, hi |-> 10, category |-> "work"],
      [lo |-> 11, hi |-> 14, category |-> "restaurant"],
      [lo |-> 9, hi |-> 17, category |-> "work"],
      [lo |-> 17, hi |-> 21, category |-> "restaurant"]>>

\* C15: the category is that of the first bucket, in the order [6,10] work,
\* [11,14] restaurant, [9,17] work, [17,21] restaurant, that contains the average
\* start hour, home if none does; 8 gives work, 12 and 19 restaurant, 2 home.
C15_FirstMatchingBucket ==
    last.op = "_suggest_category_from_times" =>
        LET hours == result.value[1]
            category == result.value[2]
            n == Len(hours)
            total == SumSeq(hours)
            matches == {b \in DOMAIN CategoryBuckets :
                           /\ CategoryBuckets[b].lo * n <= total
                           /\ total <= CategoryBuckets[b].hi * n}
        IN  /\ matches = {} => category = "home"
            /\ matches # {} =>
                  \E b \in matches : /\ \A c \in matches : b <= c
                                     /\ category = CategoryBuckets[b].category
            /\ hours = <<8>> => category = "work"
            /\ hours = <<12>> => category = "restaurant"
            /\ hours = <<19>> => category = "restaurant"
            /\ hours = <<2>> => category = "home"

\* The average 12.5 lies in the second and the third bucket and gave restaurant.
C15_Witness ==
    /\ last.op = "_suggest_category_from_times"
    /\ result.value[1] = <<11, 14>>
    /\ result.value[2] = "restaurant"


\* C16: for every visit history and every days_back >= 1, get_routines completes
\* and every routine it returns has a confidence between 0.0 and 1.0.
C16_ConfidenceInUnitRange ==
    last.op = "get_routines" =>
        /\ ~result.raised
        /\ \A k \in DOMAIN result.value :
              result.value[k].confidence >= 0 /\ result.value[k].confidence <= 100

\* How many of the owner's visits to place p were entered in the 28 days before
\* now, on now's day of week, at an hour at most 1 from now's hour.
TypicalCount(p) ==
    Cardinality({v \in DOMAIN visits :
                    /\ visits[v].uid = USER_ID
                    /\ visits[v].place_id = p
                    /\ visits[v].entered_at >= now - 28 * Day
                    /\ (visits[v].entered_at \div Day) % 7 = (now \div Day) % 7
                    /\ ((visits[v].entered_at % Day) \div Hour) - ((now % Day) \div Hour)
                          \in {-1, 0, 1}})

\* The places with the highest count of such visits, if any visit counts.
TypicalPlaces ==
    {p \in DOMAIN places :
        /\ TypicalCount(p) > 0
        /\ \A q \in DOMAIN places : TypicalCount(q) <= TypicalCount(p)}

\* C17: check_routine_deviation reports nothing when there is no typical place
\* for now's day and hour, nothing when the place of the owner's open visit has
\* the name of the typical place, and otherwise a deviation with the typical and
\* the current place name, the expected hour and the day.
C17_DeviationFromOpenVisit ==
    last.op = "check_routine_deviation" =>
        LET open == OpenVisits(visits, USER_ID)
            current_name == IF open = {} THEN NoName
                            ELSE places[visits[CHOOSE v \in open : TRUE].place_id].name
        IN  /\ TypicalPlaces = {} => result.value = <<>>
            /\ \A p \in TypicalPlaces :
                  TypicalPlaces = {p} =>
                      IF current_name = places[p].name
                      THEN result.value = <<>>
                      ELSE result.value = <<[is_deviation |-> TRUE,
                                             typical_place |-> places[p].name,
                                             current_place |-> current_name,
                                             expected_time |-> (now % Day) \div Hour,
                                             day |-> (now \div Day) % 7]>>

C19_OwnersAreIndependent ==
    [][/\ (last'.op \in {"record_visit", "end_visit", "process_place_detection"} =>
              /\ \A v \in DOMAIN visits' :
                    visits'[v].uid # last'.uid => (v \in DOMAIN visits /\ visits'[v] = visits[v])
              /\ \A v \in DOMAIN visits :
                    visits[v].uid # last'.uid => v \in DOMAIN visits'
              /\ \A p \in DOMAIN places :
                    places[p].uid # last'.uid => places'[p] = places[p])
       /\ (last'.op = "ensure_home_place_exists" =>
              \E p \in DOMAIN places' :
                  places'[p].uid = last'.uid /\ places'[p].name = "Home")
      ]_vars


\* C20: an owner with no places and three weeks of 4 stationary fixes a day at
\* one location, all within the 30 day lookback: discovery with min_visits = 3
\* returns exactly one suggestion, at that location, with visit_count >= 3.
C20_ThreeWeeksOneSuggestion ==
    (/\ last.op = "discover_frequent_locations"
     /\ result.min_visits = 3
     /\ places = <<>>
     /\ Len(fixes) = 21 * FixesPerDay
     /\ \A k \in DOMAIN fixes :
           /\ fixes[k].latitude = fixes[1].latitude
           /\ fixes[k].speed < 2
           /\ fixes[k].timestamp >= now - 30 * Day)
    => /\ Len(result.value) = 1
       /\ result.value[1].latitude = fixes[1].latitude
       /\ result.value[1].visit_count >= 3

\* Discovery ran 30 days after the first fix and found the one location with a
\* visit for each of the 21 days.
C20_Witness ==
    /\ last.op = "discover_frequent_locations"
    /\ result.min_visits = 3
    /\ Len(fixes) = 21 * FixesPerDay
    /\ fixes[1].timestamp = now - 30 * Day
    /\ Len(result.value) = 1
    /\ result.value[1].visit_count >= 21


\* C21: confirm_discovered_place never fails on the category string: a string
\* that is none of the ten PlaceCategory values creates the place with category
\* other, one of the ten creates it with exactly that category.
C21_CategoryFallsBackToOther ==
    (last.op = "confirm_discovered_place" /\ Len(result.value) = 1) =>
        /\ ~result.raised
        /\ ret \in DOMAIN places
        /\ places[ret].category =
              IF result.value[1] \in {"home", "work", "school", "gym", "restaurant",
                                      "shopping", "medical", "family", "friend",
                                      "other"}
              THEN result.value[1] ELSE "other"

\* A place was confirmed as gym with the string "gym", and another one as other
\* with the string "Gym".
C21_Witness ==
    /\ last.op = "confirm_discovered_place"
    /\ result.value = <<"Gym">>
    /\ DOMAIN places = {1, 2}
    /\ places[1].category = "gym"
    /\ places[2].category = "other"


\* C22: end_visit on an open visit sets exited_at = now and dwell_minutes =
\* floor(seconds between entered_at and now / 60), whatever the duration (more
\* than 24 hours included), and adds exactly that to the place's
\* total_dwell_time_minutes.
C22_DwellIsWholeDuration ==
    [][last'.op = "end_visit" =>
          \E v \in DOMAIN visits :
              /\ ret' = v
              /\ visits[v].exited_at = None
              /\ visits[v].uid = last'.uid
              /\ visits[v].place_id = last'.place_id
              /\ visits'[v].exited_at = now
              /\ visits'[v].dwell_minutes = (now - visits[v].entered_at) \div 60
              /\ places'[visits[v].place_id].total_dwell_time_minutes
                    = places[visits[v].place_id].total_dwell_time_minutes
                      + (now - visits[v].entered_at) \div 60
      ]_vars

\* A visit of one day and 31 seconds (from 9:00:59) was ended with 1440 minutes.
C22_Witness ==
    /\ last.op = "end_visit"
    /\ ret \in DOMAIN visits
    /\ visits[ret].exited_at - visits[ret].entered_at = Day + 31
    /\ visits[ret].dwell_minutes = 24 * 60
    /\ places[visits[ret].place_id].total_dwell_time_minutes >= 24 * 60


\* The visits counted for the flag of visit v: the earlier visits of the same
\* owner to the same place on the same day of the week, entered within the 14
\* days before v.
FlagPeers(v) ==
    {w \in DOMAIN visits :
        /\ w < v
        /\ visits[w].uid = visits[v].uid
        /\ visits[w].place_id = visits[v].place_id
        /\ visits[w].day_of_week = visits[v].day_of_week
        /\ visits[v].entered_at - visits[w].entered_at <= 14 * Day}

\* C23: a visit is flagged as routine iff at least 2 such visits exist and one of
\* them began in an hour h with |h - hour of the visit| <= 2, the difference
\* taken plainly (hours 23 and 0 are 23 apart).
C23_RoutineFlag ==
    \A v \in DOMAIN visits :
        visits[v].is_routine <=>
            /\ Cardinality(FlagPeers(v)) >= 2
            /\ \E w \in FlagPeers(v) :
                  LET h == (visits[w].entered_at % Day) \div Hour
                      g == (visits[v].entered_at % Day) \div Hour
                  IN  h - g <= 2 /\ g - h <= 2

\* A visit begun at 23:30 after two visits of the same day begun after midnight
\* is not flagged.
C23_Witness ==
    \E v \in DOMAIN visits :
        /\ Cardinality(FlagPeers(v)) >= 2
        /\ (visits[v].entered_at % Day) \div Hour = 23
        /\ \A w \in FlagPeers(v) : (visits[w].entered_at % Day) \div Hour = 0
        /\ ~visits[v].is_routine


\* The visit fields of a place.
VisitFields(place) ==
    <<place.visit_count, place.last_visited, place.first_visited>>

\* A record_visit step counts the visit exactly when it creates one.
RecordVisitCounts ==
    last'.op = "record_visit" =>
        /\ \A p \in (DOMAIN places) \ {last'.place_id} :
              p \in DOMAIN places' /\ VisitFields(places'[p]) = VisitFields(places[p])
        /\ \A p \in (DOMAIN places) \cap {last'.place_id} :
              IF DOMAIN visits' # DOMAIN visits
              THEN /\ ret' \in (DOMAIN visits') \ (DOMAIN visits)
                   /\ places'[p].visit_count = places[p].visit_count + 1
                   /\ places'[p].last_visited = now
                   /\ places'[p].first_visited =
                         IF places[p].first_visited = None THEN now
                         ELSE places[p].first_visited
              ELSE VisitFields(places'[p]) = VisitFields(places[p])

\* first_visited of a place does not change once it is set.
FirstVisitedIsKept ==
    \A p \in (DOMAIN places) \cap (DOMAIN places') :
        places[p].first_visited # None =>
            places'[p].first_visited = places[p].first_visited

\* visit_count is the number of visits created for the place.
VisitCountIsNumberOfVisits ==
    \A p \in DOMAIN places :
        places[p].visit_count
            = Cardinality({v \in DOMAIN visits : visits[v].place_id = p})

\* C24: record_visit adds 1 to visit_count, sets last_visited = now and sets
\* first_visited if it was unset exactly when it creates a Visit, and changes
\* none of them otherwise; so visit_count is always the number of Visits created
\* for the place and first_visited never changes once set.
C24_VisitCountTracksVisits ==
    /\ []VisitCountIsNumberOfVisits
    /\ [][RecordVisitCounts /\ FirstVisitedIsKept]_vars

\* A place got its second visit later than its first one.
C24_Witness ==
    /\ last.op = "record_visit"
    /\ last.place_id \in DOMAIN places
    /\ ret \in DOMAIN visits
    /\ places[last.place_id].visit_count = 2
    /\ places[last.place_id].last_visited = now
    /\ places[last.place_id].first_visited < now


\* The owner's places that contain the point and have no open visit of the owner.
EntryCandidates(uid, lat) ==
    {p \in DOMAIN places :
        /\ places[p].uid = uid
        /\ Abs(lat - places[p].latitude) <= places[p].radius_meters
        /\ ~\E v \in DOMAIN visits : /\ visits[v].uid = uid
                                     /\ visits[v].place_id = p
                                     /\ visits[v].exited_at = None}

\* C25: check_place_entry returns the first of the owner's places, in storage
\* order, that contains the position and has no open Visit of the owner; none
\* when there is no such place; never a place of another owner.
C25_FirstPlaceEntered ==
    last.op = "check_place_entry" =>
        LET answer == result.value[1]
            cands == EntryCandidates(last.uid, result.lat)
        IN  /\ cands = {} <=> answer = None
            /\ answer # None =>
                  /\ answer \in cands
                  /\ places[answer].uid = last.uid
                  /\ \E k \in DOMAIN result.order :
                        /\ result.order[k] = answer
                        /\ \A j \in 1..(k - 1) : result.order[j] \notin cands

\* Inside both places of the owner, with an open visit at the place the query
\* returned first: the second place is the answer.
C25_Witness ==
    /\ last.op = "check_place_entry"
    /\ Len(result.order) = 2
    /\ \A k \in 1..2 :
          Abs(result.lat - places[result.order[k]].latitude)
              <= places[result.order[k]].radius_meters
    /\ \E v \in DOMAIN visits : /\ visits[v].uid = last.uid
                                 /\ visits[v].place_id = result.order[1]
                                 /\ visits[v].exited_at = None
    /\ result.value[1] = result.order[2]

\* The answer to a check_place_exit is right.
ExitAnswerIsRight ==
    last.op = "check_place_exit" =>
        LET answer == result.value[1]
            open == {v \in DOMAIN visits :
                        visits[v].uid = last.uid /\ visits[v].exited_at = None}
        IN  /\ open = {} => answer = None
            /\ \A p \in DOMAIN places :
                  answer = p <=>
                      \E v \in open :
                          /\ visits[v].place_id = p
                          /\ Abs(result.lat - places[p].latitude)
                                > places[p].radius_meters
            /\ answer = None \/ answer \in DOMAIN places

\* C26: check_place_exit signals exit for a place iff the owner has an open
\* Visit, its place exists and the position is outside its geofence; none
\* without an open Visit; no Visit and no Place is modified.
C26_ExitIffOutside ==
    /\ []ExitAnswerIsRight
    /\ [][last'.op = "check_place_exit" => visits' = visits /\ places' = places]_vars

\* The owner has an open visit and is one metre outside its place.
C26_Witness ==
    /\ last.op = "check_place_exit"
    /\ result.value[1] \in DOMAIN places
    /\ Abs(result.lat - places[result.value[1]].latitude)
          = places[result.value[1]].radius_meters + 1


\* The place of a call in the order exit check, end_visit, departure trigger,
\* entry check, record_visit, arrival trigger.
CallRank(op) ==
    CASE op = "check_place_exit" -> 1
      [] op = "end_visit" -> 2
      [] op = "departure" -> 3
      [] op = "check_place_entry" -> 4
      [] op = "record_visit" -> 5
      [] op = "arrival" -> 6

\* The tick saw the owner arrive at place b coming from the open visit v at
\* another place that does not contain the position.
MovedTo(v, b, lat, calls) ==
    /\ visits[v].uid = USER_ID
    /\ visits[v].exited_at = None
    /\ visits[v].place_id # b
    /\ Abs(lat - places[visits[v].place_id].latitude)
          > places[visits[v].place_id].radius_meters
    /\ \E k \in DOMAIN calls : calls[k] = [op |-> "arrival", place_id |-> b]

\* C27: in every tick the exit check and its end_visit run before the entry
\* check and its record_visit; when the owner moves from place A to a disjoint
\* place B, the visit to A is closed by end_visit, its dwell minutes are added to
\* A and the departure trigger of A is checked, all before the visit to B is
\* created and the arrival trigger of B is checked.
C27_ExitBeforeEntry ==
    [][last'.op = "process_place_detection" =>
          LET calls == result'.value
          IN  /\ \A i, j \in DOMAIN calls :
                    i < j => CallRank(calls[i].op) < CallRank(calls[j].op)
              /\ \A v \in DOMAIN visits, b \in DOMAIN places :
                    MovedTo(v, b, result'.lat, calls) =>
                        LET a == visits[v].place_id
                            dwell == (now - visits[v].entered_at) \div 60
                        IN  /\ \E i, j, k \in DOMAIN calls :
                                  /\ calls[i] = [op |-> "end_visit", place_id |-> a]
                                  /\ calls[j] = [op |-> "departure", place_id |-> a]
                                  /\ calls[k] = [op |-> "record_visit", place_id |-> b]
                                  /\ i < j /\ j < k
                            /\ visits'[v].exited_at = now
                            /\ visits'[v].dwell_minutes = dwell
                            /\ places'[a].total_dwell_time_minutes
                                  = places[a].total_dwell_time_minutes + dwell
                            /\ \E w \in (DOMAIN visits') \ (DOMAIN visits) :
                                  /\ visits'[w].place_id = b
                                  /\ visits'[w].exited_at = None
      ]_vars

\* A tick moved the owner from the first place to the second one: the first
\* place got the minutes of the closed visit, and the six calls were made.
C27_Witness ==
    /\ last.op = "process_place_detection"
    /\ Len(result.value) = 6
    /\ result.value[2] = [op |-> "end_visit", place_id |-> 1]
    /\ result.value[5] = [op |-> "record_visit", place_id |-> 2]
    /\ places[1].total_dwell_time_minutes > 0
    /\ \E w \in DOMAIN visits : visits[w].place_id = 2 /\ visits[w].exited_at = None


\* Fix k lies inside a known place of the owner.
InKnownPlace(k) ==
    \E p \in DOMAIN places :
        /\ places[p].uid = fixes[k].uid
        /\ Abs(fixes[k].latitude - places[p].latitude) <= places[p].radius_meters

\* The fixes of session s up to fix k: those stamped from its start to fix k.
SessionFixesUpTo(s, k) ==
    {j \in 1..k : fixes[j].timestamp >= s.start_time}

RECURSIVE SumLats(_)
SumLats(S) ==
    IF S = {} THEN 0
    ELSE LET j == CHOOSE x \in S : TRUE IN fixes[j].latitude + SumLats(S \ {j})

\* C28: a fix outside every known place extends the current session iff it is
\* at most 30 minutes after the session's last fix and at most 500 m from the
\* mean of all points of the session (both inclusive); otherwise the session is
\* closed and a new one starts with this fix as its only point so far.
C28_ExtendsWithinGapAndCentroid ==
    last.op = "discover_frequent_locations" =>
        \A k \in 1..(Len(fixes) - 1) :
            (~InKnownPlace(k) /\ ~InKnownPlace(k + 1)) =>
                \E i \in DOMAIN result.dwell_sessions :
                    LET s == result.dwell_sessions[i]
                        before == SessionFixesUpTo(s, k)
                        n == Cardinality(before)
                        extends ==
                            /\ fixes[k + 1].timestamp - fixes[k].timestamp <= 30 * 60
                            /\ n * fixes[k + 1].latitude - SumLats(before) <= 500 * n
                            /\ SumLats(before) - n * fixes[k + 1].latitude <= 500 * n
                    IN  /\ s.start_time <= fixes[k].timestamp
                        /\ fixes[k].timestamp <= s.end_time
                        /\ IF extends
                           THEN fixes[k + 1].timestamp <= s.end_time
                           ELSE /\ s.end_time = fixes[k].timestamp
                                /\ i + 1 \in DOMAIN result.dwell_sessions
                                /\ result.dwell_sessions[i + 1].start_time
                                      = fixes[k + 1].timestamp
                                /\ result.dwell_sessions[i + 1].points[1]
                                      = fixes[k + 1].latitude

\* Fixes at 0, 100 and 550, each exactly 30 minutes after the one before, made
\* one session: 550 is exactly 500 m from the mean of 0 and 100.
C28_Witness ==
    /\ last.op = "discover_frequent_locations"
    /\ Len(fixes) = 3
    /\ \A k \in 1..2 : fixes[k + 1].timestamp - fixes[k].timestamp = 30 * 60
    /\ fixes[1].latitude = 0 /\ fixes[2].latitude = 100 /\ fixes[3].latitude = 550
    /\ Len(result.dwell_sessions) = 1
    /\ result.dwell_sessions[1].points = <<0, 100, 550>>

\* The sessions that hold fix k.
SessionsOf(k) ==
    {i \in DOMAIN result.dwell_sessions :
        /\ result.dwell_sessions[i].start_time <= fixes[k].timestamp
        /\ fixes[k].timestamp <= result.dwell_sessions[i].end_time}

\* C29: segmentation partitions the fixes: a fix outside all known places is in
\* exactly one session, a fix inside a known place is in none and no session
\* spans it, the sessions come in the order of time with start_time <= end_time
\* and do not overlap, none is empty, and the session in progress at the end is
\* among them.
C29_SessionsPartitionFixes ==
    last.op = "discover_frequent_locations" =>
        /\ \A k \in DOMAIN fixes :
              Cardinality(SessionsOf(k)) = IF InKnownPlace(k) THEN 0 ELSE 1
        /\ \A i \in DOMAIN result.dwell_sessions :
              LET s == result.dwell_sessions[i]
                  held == {k \in DOMAIN fixes : i \in SessionsOf(k)}
              IN  /\ s.points # <<>>
                  /\ s.start_time <= s.end_time
                  /\ Len(s.points) = Cardinality(held)
                  /\ \A k \in held :
                        s.points[1 + Cardinality({j \in held : j < k})]
                            = fixes[k].latitude
                  /\ \E k \in held : fixes[k].timestamp = s.start_time
                  /\ \E k \in held : fixes[k].timestamp = s.end_time
                  /\ i > 1 => result.dwell_sessions[i - 1].end_time < s.start_time

\* Four fixes at one spot within 30 minutes of each other, the second one
\* replaced by a fix inside the known place: two sessions, the last one open at
\* the end of the run.
C29_Witness ==
    /\ last.op = "discover_frequent_locations"
    /\ Len(fixes) = 4
    /\ ~InKnownPlace(1) /\ InKnownPlace(2) /\ ~InKnownPlace(3) /\ ~InKnownPlace(4)
    /\ fixes[1].latitude = fixes[3].latitude
    /\ fixes[3].timestamp - fixes[1].timestamp <= 2 * 30 * 60
    /\ Len(result.dwell_sessions) = 2
    /\ result.dwell_sessions[2].end_time = fixes[4].timestamp


\* The centroids of sessions a and b are within 100 m of each other.
SessionsWithin100(a, b) ==
    LET sa == SumSeq(a.points)
        na == Len(a.points)
        sb == SumSeq(b.points)
        nb == Len(b.points)
    IN  /\ sa * nb - sb * na <= 100 * na * nb
        /\ sb * na - sa * nb <= 100 * na * nb

\* The sessions held by the clusters before cluster c.
HeldBefore(c) ==
    UNION {{result.clusters[d].members[k] : k \in DOMAIN result.clusters[d].members} :
              d \in 1..(c - 1)}

\* C30: clustering is greedy and star-shaped: the seeds are taken in input
\* order, a cluster holds its seed and every session not yet held whose
\* centroid is within the radius of the seed's centroid, every session is in
\* exactly one cluster, and the sessions of a cluster dropped for having fewer
\* than min_visits members stay with it.
C30_GreedyStarClusters ==
    last.op = "discover_frequent_locations" =>
        LET sessions == result.dwell_sessions
            clusters == result.clusters
            held(c) == {clusters[c].members[k] : k \in DOMAIN clusters[c].members}
        IN  /\ \A j \in DOMAIN sessions :
                  Cardinality({c \in DOMAIN clusters : j \in held(c)}) = 1
            /\ \A c \in DOMAIN clusters :
                  LET seed == clusters[c].members[1]
                  IN  /\ seed \notin HeldBefore(c)
                      /\ \A j \in 1..(seed - 1) : j \in HeldBefore(c)
                      /\ held(c) = {seed} \cup
                            {j \in (DOMAIN sessions) \ HeldBefore(c) :
                                SessionsWithin100(sessions[seed], sessions[j])}
                      /\ Len(clusters[c].members) = Cardinality(held(c))
            /\ Len(result.value)
                  = Cardinality({c \in DOMAIN clusters :
                                   Len(clusters[c].members) >= result.min_visits})
            /\ \A c \in DOMAIN clusters :
                  Len(clusters[c].members) >= result.min_visits =>
                      \E k \in DOMAIN result.value :
                          result.value[k].visit_count = Len(clusters[c].members)

\* Four sessions 100 m apart in a row with min_visits = 3: the first takes the
\* second and is dropped, the third takes the fourth and is dropped, although
\* the second, third and fourth are all within 100 m of the third.
C30_Witness ==
    /\ last.op = "discover_frequent_locations"
    /\ result.min_visits = 3
    /\ Len(result.dwell_sessions) = 4
    /\ \A k \in 1..4 : result.dwell_sessions[k].points = <<(k - 1) * 100>>
    /\ Len(result.clusters) = 2
    /\ result.clusters[1].members = <<1, 2>>
    /\ result.clusters[2].members = <<3, 4>>
    /\ result.value = <<>>

\* The kept clusters of the last call, as indexes into result.clusters.
KeptClusters == {c \in DOMAIN result.clusters : result.clusters[c].kept}

\* The place of kept cluster c in the order by visit_count, largest first, with
\* clusters of equal count in the order of their seeds.
TopRank(c) ==
    1 + Cardinality({d \in KeptClusters :
                       \/ Len(result.clusters[d].members) > Len(result.clusters[c].members)
                       \/ /\ Len(result.clusters[d].members) = Len(result.clusters[c].members)
                          /\ d < c})

\* C31: discover_frequent_locations returns at most 10 suggestions; each has
\* visit_count equal to the number of dwell sessions of its cluster (not of
\* fixes) and at least min_visits; they are ordered by visit_count
\* non-increasing, ties in seed order; the visit_counts sum to at most the number
\* of dwell sessions; first_seen <= last_seen are the minimum start and the
\* maximum end of the member sessions.
C31_TopSuggestions ==
    last.op = "discover_frequent_locations" =>
        LET sessions == result.dwell_sessions
            clusters == result.clusters
            value == result.value
        IN  /\ Len(value) <= 10
            /\ Len(value) = IF Cardinality(KeptClusters) <= 10
                            THEN Cardinality(KeptClusters) ELSE 10
            /\ \A k \in DOMAIN value :
                  \E c \in KeptClusters :
                      LET members == clusters[c].members
                          held == {members[j] : j \in DOMAIN members}
                      IN  /\ TopRank(c) = k
                          /\ value[k].visit_count = Cardinality(held)
                          /\ value[k].visit_count >= result.min_visits
                          /\ value[k].first_seen <= value[k].last_seen
                          /\ \E j \in held : sessions[j].start_time = value[k].first_seen
                          /\ \A j \in held : sessions[j].start_time >= value[k].first_seen
                          /\ \E j \in held : sessions[j].end_time = value[k].last_seen
                          /\ \A j \in held : sessions[j].end_time <= value[k].last_seen
            /\ \A k \in DOMAIN value :
                  k > 1 => value[k - 1].visit_count >= value[k].visit_count
            /\ SumSeq([k \in DOMAIN value |-> value[k].visit_count]) <= Len(sessions)

\* Twelve stays with min_visits = 1, each at a spot of its own but the fifth
\* and the twelfth, both at the first spot: eleven clusters are kept, the one
\* seeded by the fifth stay comes first with its 2 visits, the others follow in
\* seed order, and the cluster of the eleventh stay is cut off.
C31_Witness ==
    /\ last.op = "discover_frequent_locations"
    /\ result.min_visits = 1
    /\ Len(fixes) = 12
    /\ Len(result.dwell_sessions) = 12
    /\ Cardinality(KeptClusters) = 11
    /\ result.clusters[5].members = <<5, 12>>
    /\ Len(result.value) = 10
    /\ result.value[1].latitude = 0
    /\ result.value[1].visit_count = 2
    /\ result.value[2].latitude = 2 * DEFAULT_RADIUS
    /\ result.value[10].latitude = 10 * 2 * DEFAULT_RADIUS

\* The cells (place, day, hour) of the owner's visits entered in the window of
\* the last get_routines call, each with the number of those visits.
WindowCells ==
    {[place_id |-> visits[v].place_id, day |-> (visits[v].entered_at \div Day) % 7,
      hour |-> (visits[v].entered_at % Day) \div Hour] :
        v \in {w \in DOMAIN visits : /\ visits[w].uid = USER_ID
                                     /\ visits[w].entered_at >= now - result.days_back * Day}}

WindowCount(c) ==
    Cardinality({v \in DOMAIN visits :
                    /\ visits[v].uid = USER_ID
                    /\ visits[v].entered_at >= now - result.days_back * Day
                    /\ visits[v].place_id = c.place_id
                    /\ (visits[v].entered_at \div Day) % 7 = c.day
                    /\ (visits[v].entered_at % Day) \div Hour = c.hour})

\* min(count / (days_back / 7), 1.0) with the exact number of weeks, in
\* hundredths, rounded as the records are.
ExactWeeksConfidence(count, days_back) ==
    IF 7 * count >= days_back THEN 100
    ELSE LET q == (700 * count) \div days_back
             twice == 2 * ((700 * count) % days_back)
         IN  IF twice > days_back \/ (twice = days_back /\ q % 2 = 1) THEN q + 1 ELSE q

\* C32: for a window of at least a week, get_routines gives exactly one record
\* for every (place, day_of_week, hour) cell with at least 2 visits in the
\* window and none for a cell with fewer; its confidence is
\* min(count / (days_back / 7), 1.0) with days_back / 7 the exact number of
\* weeks; the records are ordered by (confidence, occurrence_count) descending.
C32_ExactWeeksConfidence ==
    (last.op = "get_routines" /\ result.days_back >= 7) =>
        /\ ~result.raised
        /\ \A c \in WindowCells :
              Cardinality({k \in DOMAIN result.value :
                              /\ result.value[k].place_id = c.place_id
                              /\ result.value[k].day_number = c.day
                              /\ result.value[k].hour = c.hour})
                  = IF WindowCount(c) >= 2 THEN 1 ELSE 0
        /\ \A k \in DOMAIN result.value :
              LET c == [place_id |-> result.value[k].place_id,
                        day |-> result.value[k].day_number,
                        hour |-> result.value[k].hour]
              IN  /\ c \in WindowCells
                  /\ result.value[k].occurrence_count = WindowCount(c)
                  /\ result.value[k].confidence
                        = ExactWeeksConfidence(WindowCount(c), result.days_back)
        /\ \A k \in DOMAIN result.value :
              k > 1 =>
                  \/ result.value[k - 1].confidence > result.value[k].confidence
                  \/ /\ result.value[k - 1].confidence = result.value[k].confidence
                     /\ result.value[k - 1].occurrence_count
                            >= result.value[k].occurrence_count

\* The closed visits to place p.
ClosedVisitsTo(p) ==
    {v \in DOMAIN visits : visits[v].place_id = p /\ visits[v].exited_at # None}

RECURSIVE DwellSum(_)
\* The sum of dwell_minutes over a set of visits.
DwellSum(S) ==
    IF S = {} THEN 0
    ELSE LET v == CHOOSE x \in S : TRUE
         IN  visits[v].dwell_minutes + DwellSum(S \ {v})

\* C33: under sequential execution, the total_dwell_time_minutes of every place
\* equals the sum of dwell_minutes over its closed visits, whether end_visit
\* closed them or record_visit did before a new entry.
C33_TotalDwellIsSumOfClosed ==
    \A p \in DOMAIN places :
        places[p].total_dwell_time_minutes = DwellSum(ClosedVisitsTo(p))

\* The step is a tick without error at the position of the tick without error
\* before it, with nothing in between.
StationaryTick ==
    /\ last.op = "process_place_detection" /\ ~result.raised
    /\ last'.op = "process_place_detection" /\ ~result'.raised
    /\ result'.lat = result.lat

\* C34: a stationary owner causes no visit churn: a tick at the position of the
\* tick before it, the places unchanged, creates no visit, closes no visit and
\* increments no visit_count, also where two geofences of the owner overlap.
C34_StationaryNoChurn ==
    [][StationaryTick =>
          /\ visits' = visits
          /\ \A p \in DOMAIN places : places'[p].visit_count = places[p].visit_count
      ]_vars

\* The last step was a tick that went through to its end: the entry check was
\* made and, if it gave a place, the arrival trigger of that place was checked.
TickCompleted ==
    /\ last.op = "process_place_detection"
    /\ \E k \in DOMAIN result.value :
          /\ result.value[k].op = "check_place_entry"
          /\ \/ result.value[k].place_id = None
             \/ \E j \in DOMAIN result.value :
                   result.value[j] = [op |-> "arrival",
                                      place_id |-> result.value[k].place_id]

\* The owner's places whose geofence holds the position of the last tick.
GeofencesAround ==
    {p \in DOMAIN places :
        /\ places[p].uid = USER_ID
        /\ result.lat - places[p].latitude <= places[p].radius_meters
        /\ places[p].latitude - result.lat <= places[p].radius_meters}

\* C35: after every tick that completes under sequential execution, the owner
\* has an open visit iff the tick's position is inside at least one of the
\* owner's geofences, and the place of the open visit contains the position; a
\* tick outside every geofence leaves no open visit.
C35_OpenVisitIffInside ==
    TickCompleted =>
        LET open == {v \in DOMAIN visits :
                        visits[v].uid = USER_ID /\ visits[v].exited_at = None}
        IN  /\ (open # {}) <=> (GeofencesAround # {})
            /\ \A v \in open : visits[v].place_id \in GeofencesAround
            /\ Cardinality(open) <= 1

\* A tick outside both places ended the visit to the first place and left the
\* owner without an open visit.
C35_Witness ==
    /\ TickCompleted
    /\ GeofencesAround = {}
    /\ \E k \in DOMAIN result.value :
          result.value[k] = [op |-> "end_visit", place_id |-> 1]
    /\ visits # <<>>
    /\ \A v \in DOMAIN visits : visits[v].exited_at # None

\* The places of the open visits of owner u.
OpenPlacesOf(u) ==
    {visits[v].place_id : v \in {w \in DOMAIN visits :
                                    visits[w].uid = u /\ visits[w].exited_at = None}}

\* C36: the current-place cache never disagrees with the store: in every
\* reachable state, also after a cache write or delete that failed and was
\* swallowed, a cache entry of an owner names the place of that owner's open
\* visit, so get_current_place gives a place iff the owner has an open visit,
\* and then the place of that visit.
C36_CacheAgreesWithStore ==
    /\ \A u \in Users : cache[u] # None => cache[u] \in OpenPlacesOf(u)
    /\ (last.op = "get_current_place" /\ ret # Raised) =>
          /\ (ret # None) <=> (OpenPlacesOf(last.uid) # {})
          /\ ret # None => ret \in OpenPlacesOf(last.uid)

\* C37: every visit a tick closes comes with a departure event for its place,
\* also a visit closed inside record_visit when another place is entered, and
\* every visit a tick creates comes with an arrival event for its place.
C37_ClosuresHaveDepartures ==
    [][last'.op = "process_place_detection" =>
          LET calls == result'.value
          IN  /\ \A v \in DOMAIN visits :
                    (visits[v].exited_at = None /\ visits'[v].exited_at # None) =>
                        \E k \in DOMAIN calls :
                            calls[k] = [op |-> "departure",
                                        place_id |-> visits[v].place_id]
              /\ \A w \in (DOMAIN visits') \ (DOMAIN visits) :
                    \E k \in DOMAIN calls :
                        calls[k] = [op |-> "arrival", place_id |-> visits'[w].place_id]
      ]_vars

====







